---------------------------- MODULE Spec2Model ----------------------------
(***************************************************************************)
(* A model of the prolog commit log: the length-prefixed store, the        *)
(* memory-mapped index, the segmented Log built on them, the replicated    *)
(* log (DistributedLog and its FSM) and the gRPC surface.                  *)
(*                                                                         *)
(* Files are byte sequences (bytes are the integers 0..255).  Integers of  *)
(* the model stay below 2^31, so the high four bytes of every uint64 the   *)
(* model encodes are zero and the uint32/int32 conversions of index.go do  *)
(* not wrap.                                                               *)
(***************************************************************************)
EXTENDS Integers, Sequences, FiniteSets, TLC

----------------------------------------------------------------------------
(* Bounds of the model *)

\* highest offset an Append may assign in the model
MaxOffset == 3

\* failed appends a segment's store may take in the model
MaxOrphans == 2

\* number of Append commands the cluster commits in the model
MaxCommits == 2

\* an offset of two decimal digits, beyond every offset the model assigns
FarOffset == 12

----------------------------------------------------------------------------
(* Program constants *)

lenWidth == 8

offWidth == 4

posWidth == 8

entWidth == offWidth + posWidth

\* bufio.NewWriter(f) allocates the default buffer
defaultBufSize == 4096

AppendRequestType == 0

RaftRPC == 1

\* status.New(404, ...)
NotFoundCode == 404

----------------------------------------------------------------------------
(* Errors: every error value is a record [kind, Offset] *)

Err(k) == [kind |-> k, Offset |-> 0]

NoErr == Err("nil")

EOF == Err("EOF")

ErrUnexpectedEOF == Err("ErrUnexpectedEOF")

ErrClosed == Err("ErrClosed")

ErrUnmarshal == Err("ErrUnmarshal")

\* api.ErrorOffsetOutOfRange{Offset: off}
ErrorOffsetOutOfRange(off) == [kind |-> "ErrorOffsetOutOfRange", Offset |-> off]

----------------------------------------------------------------------------
(* Evaluation order *)

\* F applied to the value of e: e is evaluated once, before the body of F, as
\* a Go statement  v := e  followed by the statements that use v
Let(e, F(_)) == CHOOSE y \in {F(v) : v \in {e}} : TRUE

----------------------------------------------------------------------------
(* Bytes and the big-endian encoding (enc = binary.BigEndian) *)

Pow256(k) == CASE k = 0 -> 1 [] k = 1 -> 256 [] k = 2 -> 65536 [] k = 3 -> 16777216

\* enc.PutUint64 / enc.PutUint32: w bytes, most significant first
PutUint(n, w) ==
    [i \in 1..w |-> IF w - i > 3 THEN 0 ELSE (n \div Pow256(w - i)) % 256]

RECURSIVE UintFrom(_, _, _)
UintFrom(bs, i, acc) ==
    IF i > Len(bs) THEN acc
    ELSE Let(acc * 256 + bs[i], LAMBDA a : UintFrom(bs, i + 1, a))

\* enc.Uint64 / enc.Uint32
Uint(bs) == Let(bs, LAMBDA b : UintFrom(b, 1, 0))

Zeros(n) == [i \in 1..n |-> 0]

\* os.Truncate / File.Truncate: cut, or extend with zero bytes
TruncateTo(bs, n) ==
    IF n <= Len(bs) THEN SubSeq(bs, 1, n) ELSE bs \o Zeros(n - Len(bs))

\* fmt.Sprintf("%d", n): the decimal digits of n, as characters
Digit(d) == <<"0", "1", "2", "3", "4", "5", "6", "7", "8", "9">>[d + 1]

RECURSIVE FmtUint(_)
FmtUint(n) == IF n < 10 THEN <<Digit(n)>> ELSE Append(FmtUint(n \div 10), Digit(n % 10))

----------------------------------------------------------------------------
(* The record codec: protocol buffers, proto3.  Record has the fields      *)
(* value (1, bytes), offset (2, uint64), term (3, uint64), type (4,       *)
(* uint32); a field holding its zero value is not written.                 *)

Record(value, offset, term, type) ==
    [Value |-> value, Offset |-> offset, Term |-> term, Type |-> type]

ZeroRecord == Record(<<>>, 0, 0, 0)

RECURSIVE Varint(_)
Varint(n) == IF n < 128 THEN <<n>> ELSE <<128 + (n % 128)>> \o Varint(n \div 128)

RECURSIVE DecodeVarint(_, _)
DecodeVarint(b, i) ==
    IF i > Len(b) THEN [err |-> TRUE, val |-> 0, next |-> i]
    ELSE IF b[i] < 128 THEN [err |-> FALSE, val |-> b[i], next |-> i + 1]
    ELSE Let(DecodeVarint(b, i + 1), LAMBDA r :
             [err |-> r.err, val |-> (b[i] - 128) + 128 * r.val, next |-> r.next])

VarintField(tag, n) == IF n = 0 THEN <<>> ELSE <<tag>> \o Varint(n)

BytesField(tag, bs) == IF bs = <<>> THEN <<>> ELSE <<tag>> \o Varint(Len(bs)) \o bs

\* proto.Marshal(record)
Marshal(rec) ==
    BytesField(10, rec.Value) \o VarintField(16, rec.Offset)
        \o VarintField(24, rec.Term) \o VarintField(32, rec.Type)

BadRecord == [err |-> ErrUnmarshal, rec |-> ZeroRecord]

RECURSIVE ParseRecord(_, _, _)
ParseRecord(b, i, rec) ==
    IF i > Len(b) THEN [err |-> NoErr, rec |-> rec]
    ELSE Let(DecodeVarint(b, i + 1), LAMBDA v :
         IF v.err THEN BadRecord
         ELSE CASE b[i] = 10 ->
                     IF v.next + v.val - 1 > Len(b) THEN BadRecord
                     ELSE Let([rec EXCEPT !.Value = SubSeq(b, v.next, v.next + v.val - 1)],
                              LAMBDA r : ParseRecord(b, v.next + v.val, r))
                [] b[i] = 16 -> Let([rec EXCEPT !.Offset = v.val],
                                    LAMBDA r : ParseRecord(b, v.next, r))
                [] b[i] = 24 -> Let([rec EXCEPT !.Term = v.val],
                                    LAMBDA r : ParseRecord(b, v.next, r))
                [] b[i] = 32 -> Let([rec EXCEPT !.Type = v.val],
                                    LAMBDA r : ParseRecord(b, v.next, r))
                [] OTHER -> BadRecord)

\* proto.Unmarshal(b, record)
Unmarshal(b) == Let(b, LAMBDA p : ParseRecord(p, 1, ZeroRecord))

\* proto.Marshal(&api.ProduceRequest{Record: record}): field 1, a message
MarshalRequest(rec) == Let(Marshal(rec), LAMBDA m : <<10>> \o Varint(Len(m)) \o m)

\* proto.Unmarshal(b, &req) of a ProduceRequest
UnmarshalRequest(b) ==
    IF b = <<>> THEN [err |-> NoErr, rec |-> ZeroRecord]
    ELSE Let(DecodeVarint(b, 2), LAMBDA v :
             IF b[1] # 10 \/ v.err \/ v.next + v.val - 1 # Len(b)
             THEN BadRecord
             ELSE Unmarshal(SubSeq(b, v.next, Len(b))))

----------------------------------------------------------------------------
(* store: a file of [len:8][payload] frames behind a bufio.Writer.         *)
(*   file   the bytes the file holds (it is opened O_APPEND)               *)
(*   buf    the bytes held by the bufio.Writer, not yet in the file        *)
(*   size   store.size                                                     *)
(*   closed the file has been closed                                       *)
(*   werr   the bufio.Writer's sticky error                                *)

newStore(f) ==
    [file |-> f, buf |-> <<>>, size |-> Len(f), closed |-> FALSE, werr |-> NoErr]

\* bufio.Writer.Flush
BufFlush(s) ==
    IF s.werr # NoErr \/ s.buf = <<>> THEN s
    ELSE IF s.closed THEN [s EXCEPT !.werr = ErrClosed]
    ELSE [s EXCEPT !.file = s.file \o s.buf, !.buf = <<>>]

\* bufio.Writer.Write(p): [store, n, err]
RECURSIVE BufWrite(_, _, _)
BufWrite(s, p, nn) ==
    IF Len(p) > defaultBufSize - Len(s.buf) /\ s.werr = NoErr
    THEN IF s.buf = <<>>
         THEN IF s.closed
              THEN Let([s EXCEPT !.werr = ErrClosed], LAMBDA t : BufWrite(t, p, nn))
              ELSE Let([s EXCEPT !.file = s.file \o p],
                       LAMBDA t : BufWrite(t, <<>>, nn + Len(p)))
         ELSE Let(defaultBufSize - Len(s.buf), LAMBDA n :
              Let(BufFlush([s EXCEPT !.buf = s.buf \o SubSeq(p, 1, n)]), LAMBDA t :
              Let(SubSeq(p, n + 1, Len(p)), LAMBDA q : BufWrite(t, q, nn + n))))
    ELSE IF s.werr # NoErr THEN [store |-> s, n |-> nn, err |-> s.werr]
    ELSE [store |-> [s EXCEPT !.buf = s.buf \o p], n |-> nn + Len(p), err |-> NoErr]

\* store.Append(p) that counts the payload without its length header
StoreAppendNoHeader(s, p) ==
    Let(PutUint(Len(p), lenWidth), LAMBDA hdr :
    Let(BufWrite(s, hdr, 0), LAMBDA h :
        IF h.err # NoErr THEN [store |-> h.store, n |-> 0, pos |-> 0, err |-> h.err]
        ELSE Let(BufWrite(h.store, p, 0), LAMBDA w :
             IF w.err # NoErr THEN [store |-> w.store, n |-> 0, pos |-> 0, err |-> w.err]
             ELSE [store |-> [w.store EXCEPT !.size = s.size + w.n],
                   n |-> w.n, pos |-> s.size, err |-> NoErr])))

\* store.Append(p): [store, n, pos, err]
StoreAppend(s, p) ==
    Let(PutUint(Len(p), lenWidth), LAMBDA hdr :
    Let(BufWrite(s, hdr, 0), LAMBDA h :
        IF h.err # NoErr THEN [store |-> h.store, n |-> 0, pos |-> 0, err |-> h.err]
        ELSE Let(BufWrite(h.store, p, 0), LAMBDA w :
             IF w.err # NoErr THEN [store |-> w.store, n |-> 0, pos |-> 0, err |-> w.err]
             ELSE [store |-> [w.store EXCEPT !.size = s.size + w.n + lenWidth],
                   n |-> w.n + lenWidth, pos |-> s.size, err |-> NoErr])))

\* os.File.ReadAt(b, off) with len(b) = n: [data, err]
FileReadAt(s, n, off) ==
    IF s.closed THEN [data |-> <<>>, err |-> ErrClosed]
    ELSE IF n = 0 THEN [data |-> <<>>, err |-> NoErr]
    ELSE IF off + n <= Len(s.file)
         THEN [data |-> SubSeq(s.file, off + 1, off + n), err |-> NoErr]
         ELSE [data |-> SubSeq(s.file, off + 1, Len(s.file)), err |-> EOF]

\* store.Read(pos) without its flush: it reads what the file holds
StoreReadNoFlush(s, pos) ==
    Let(FileReadAt(s, lenWidth, pos), LAMBDA size :
        IF size.err # NoErr THEN [store |-> s, data |-> <<>>, err |-> size.err]
        ELSE Let(FileReadAt(s, Uint(size.data), pos + lenWidth), LAMBDA b :
                 IF b.err # NoErr THEN [store |-> s, data |-> <<>>, err |-> b.err]
                 ELSE [store |-> s, data |-> b.data, err |-> NoErr]))

\* store.Read(pos): [store, data, err]
StoreRead(s, pos) ==
    Let(BufFlush(s), LAMBDA f :
        IF f.werr # NoErr THEN [store |-> f, data |-> <<>>, err |-> f.werr]
        ELSE Let(FileReadAt(f, lenWidth, pos), LAMBDA size :
             IF size.err # NoErr THEN [store |-> f, data |-> <<>>, err |-> size.err]
             ELSE Let(Uint(size.data), LAMBDA n :
                  Let(FileReadAt(f, n, pos + lenWidth), LAMBDA b :
                      IF b.err # NoErr THEN [store |-> f, data |-> <<>>, err |-> b.err]
                      ELSE [store |-> f, data |-> b.data, err |-> NoErr]))))

\* store.ReadAt(p, off) with len(p) = n: [data, err]; the buffer is not flushed
StoreReadAt(s, n, off) == FileReadAt(s, n, off)

\* store.Close without its Flush: what the buffer holds is dropped
StoreCloseNoFlush(s) ==
    IF s.closed THEN [store |-> s, err |-> ErrClosed]
    ELSE [store |-> [s EXCEPT !.closed = TRUE, !.buf = <<>>], err |-> NoErr]

\* store.Close: [store, err]
StoreClose(s) ==
    Let(BufFlush(s), LAMBDA f :
        IF f.werr # NoErr THEN [store |-> f, err |-> f.werr]
        ELSE IF f.closed THEN [store |-> f, err |-> ErrClosed]
        ELSE [store |-> [f EXCEPT !.closed = TRUE], err |-> NoErr])

----------------------------------------------------------------------------
(* index: a file of 12-byte entries, mapped MAP_SHARED.                    *)
(*   file  the bytes of the file; while the index is open the mapping      *)
(*         i.mmap is this same sequence (len(i.mmap) = Len(file))          *)
(*   size  index.size                                                      *)

\* newIndex(f, c), f the bytes the file holds when it is opened
newIndex(f, c) ==
    [file |-> TruncateTo(f, c.MaxIndexBytes), size |-> Len(f)]

\* index.Close without its Truncate: the file keeps the length of the mapping
IndexCloseNoTruncate(i) == i

\* index.Close: the file is cut to size
IndexClose(i) == [i EXCEPT !.file = TruncateTo(i.file, i.size)]

\* index.Read(in) that takes in = -1 for the first entry, not the last
IndexReadFirst(i, in) ==
    IF i.size = 0 THEN [out |-> 0, pos |-> 0, err |-> NoErr]
    ELSE Let(IF in = -1 THEN 0 ELSE in, LAMBDA out :
         Let(out * entWidth, LAMBDA pos :
             IF i.size < pos + entWidth THEN [out |-> 0, pos |-> 0, err |-> EOF]
             ELSE [out |-> Uint(SubSeq(i.file, pos + 1, pos + offWidth)),
                   pos |-> Uint(SubSeq(i.file, pos + offWidth + 1, pos + entWidth)),
                   err |-> NoErr]))

\* index.Read(in): [out, pos, err]
IndexRead(i, in) ==
    IF i.size = 0 THEN [out |-> 0, pos |-> 0, err |-> NoErr]
    ELSE Let(IF in = -1 THEN (i.size \div entWidth) - 1 ELSE in, LAMBDA out :
         Let(out * entWidth, LAMBDA pos :
             IF i.size < pos + entWidth THEN [out |-> 0, pos |-> 0, err |-> EOF]
             ELSE [out |-> Uint(SubSeq(i.file, pos + 1, pos + offWidth)),
                   pos |-> Uint(SubSeq(i.file, pos + offWidth + 1, pos + entWidth)),
                   err |-> NoErr]))

\* index.Write(off, pos) that refuses the entry that exactly fills the mapping
IndexWriteEarly(i, off, pos) ==
    IF Len(i.file) <= i.size + entWidth THEN [index |-> i, err |-> EOF]
    ELSE [index |->
            [i EXCEPT !.file = SubSeq(i.file, 1, i.size) \o PutUint(off, offWidth)
                                  \o PutUint(pos, posWidth)
                                  \o SubSeq(i.file, i.size + entWidth + 1, Len(i.file)),
                      !.size = i.size + entWidth],
          err |-> NoErr]

\* index.Write(off, pos): [index, err]
IndexWrite(i, off, pos) ==
    IF Len(i.file) < i.size + entWidth THEN [index |-> i, err |-> EOF]
    ELSE [index |->
            [i EXCEPT !.file = SubSeq(i.file, 1, i.size) \o PutUint(off, offWidth)
                                  \o PutUint(pos, posWidth)
                                  \o SubSeq(i.file, i.size + entWidth + 1, Len(i.file)),
                      !.size = i.size + entWidth],
          err |-> NoErr]

----------------------------------------------------------------------------
(* segment: one store and one index sharing a base offset.                 *)

Config(maxStore, maxIndex, initial) ==
    [MaxStoreBytes |-> maxStore, MaxIndexBytes |-> maxIndex, InitialOffset |-> initial]

NoFiles == [store |-> <<>>, index |-> <<>>]

\* newSegment(dir, baseOffset, c), files the bytes of <baseOffset>.store and
\* <baseOffset>.index (empty when they are created)
newSegment(files, baseOffset, c) ==
    Let(newIndex(files.index, c), LAMBDA ix :
        [baseOffset |-> baseOffset,
         nextOffset |-> IF ix.size = 0 THEN baseOffset
                        ELSE baseOffset + IndexRead(ix, -1).out + 1,
         store |-> newStore(files.store), index |-> ix])

\* segment.Append(record): [seg, off, err]
SegmentAppend(s, record) ==
    Let(Marshal([record EXCEPT !.Offset = s.nextOffset]), LAMBDA p :
    Let(StoreAppend(s.store, p), LAMBDA a :
        IF a.err # NoErr
        THEN [seg |-> [s EXCEPT !.store = a.store], off |-> 0, err |-> a.err]
        ELSE Let(IndexWrite(s.index, s.nextOffset - s.baseOffset, a.pos), LAMBDA w :
             IF w.err # NoErr
             THEN [seg |-> [s EXCEPT !.store = a.store], off |-> 0, err |-> w.err]
             ELSE [seg |-> [s EXCEPT !.store = a.store, !.index = w.index,
                                     !.nextOffset = s.nextOffset + 1],
                   off |-> s.nextOffset, err |-> NoErr])))

\* segment.Read(off): [seg, rec, err]; rec is <<>> (nil) or <<record>>
SegmentRead(s, off) ==
    Let(IndexRead(s.index, off - s.baseOffset), LAMBDA e :
        IF e.err # NoErr THEN [seg |-> s, rec |-> <<>>, err |-> e.err]
        ELSE Let(StoreRead(s.store, e.pos), LAMBDA r :
             Let([s EXCEPT !.store = r.store], LAMBDA t :
                 IF r.err # NoErr THEN [seg |-> t, rec |-> <<>>, err |-> r.err]
                 ELSE Let(Unmarshal(r.data), LAMBDA u :
                      IF u.err # NoErr THEN [seg |-> t, rec |-> <<>>, err |-> u.err]
                      ELSE [seg |-> t, rec |-> <<u.rec>>, err |-> NoErr]))))

\* segment.IsMaxed that never reports a full segment
IsMaxedNever(s, c) == FALSE

\* segment.IsMaxed
IsMaxed(s, c) ==
    s.store.size >= c.MaxStoreBytes \/ s.index.size >= c.MaxIndexBytes

\* segment.Close: the index, then the store
SegmentClose(s) ==
    [s EXCEPT !.index = IndexClose(s.index), !.store = StoreClose(s.store).store]

\* the files a closed segment leaves in the directory
SegmentFiles(s) ==
    [baseOffset |-> s.baseOffset, store |-> s.store.file, index |-> s.index.file]

----------------------------------------------------------------------------
(* Log: the ordered segments of one directory.                             *)
(*   Config    the Log's configuration                                     *)
(*   segments  the open segments; the active segment is the last one       *)

ErrPanic == Err("panic")

RECURSIVE SortByBase(_)
SortByBase(dir) ==
    IF dir = {} THEN <<>>
    ELSE Let(CHOOSE x \in dir : \A y \in dir : x.baseOffset <= y.baseOffset,
             LAMBDA f : Let(dir \ {f}, LAMBDA rest : <<f>> \o SortByBase(rest)))

\* NewLog(dir, c): dir is the set of segment files the directory holds
NewLog(dir, c) ==
    Let(SortByBase(dir), LAMBDA files :
        [Config |-> c,
         segments |-> IF files = <<>>
                      THEN <<newSegment(NoFiles, c.InitialOffset, c)>>
                      ELSE [k \in 1..Len(files) |->
                              newSegment(files[k], files[k].baseOffset, c)]])

ActiveSegment(l) == l.segments[Len(l.segments)]

\* Log.Append(record): [log, off, err]
LogAppend(l, record) ==
    IF l.segments = <<>> THEN [log |-> l, off |-> 0, err |-> ErrPanic]
    ELSE Let(SegmentAppend(ActiveSegment(l), record), LAMBDA a :
         Let([l.segments EXCEPT ![Len(l.segments)] = a.seg], LAMBDA segs :
             IF a.err # NoErr
             THEN [log |-> [l EXCEPT !.segments = segs], off |-> 0, err |-> a.err]
             ELSE IF IsMaxed(a.seg, l.Config)
             THEN [log |-> [l EXCEPT !.segments =
                              Append(segs, newSegment(NoFiles, a.seg.nextOffset, l.Config))],
                   off |-> a.off, err |-> NoErr]
             ELSE [log |-> [l EXCEPT !.segments = segs], off |-> a.off, err |-> NoErr]))

Covers(s, off) == s.baseOffset <= off /\ off < s.nextOffset

\* Log.Read(off): [log, rec, err]
LogRead(l, off) ==
    IF \A k \in 1..Len(l.segments) : ~Covers(l.segments[k], off)
    THEN [log |-> l, rec |-> <<>>, err |-> ErrorOffsetOutOfRange(off)]
    ELSE Let(CHOOSE j \in 1..Len(l.segments) : Covers(l.segments[j], off), LAMBDA k :
         Let(SegmentRead(l.segments[k], off), LAMBDA r :
             [log |-> [l EXCEPT !.segments[k] = r.seg], rec |-> r.rec, err |-> r.err]))

\* Log.LowestOffset: [off, err]
LowestOffset(l) ==
    IF l.segments = <<>> THEN [off |-> 0, err |-> ErrPanic]
    ELSE [off |-> l.segments[1].baseOffset, err |-> NoErr]

\* Log.HighestOffset: [off, err]
HighestOffset(l) ==
    IF l.segments = <<>> THEN [off |-> 0, err |-> ErrPanic]
    ELSE IF ActiveSegment(l).nextOffset > l.segments[1].baseOffset
         THEN [off |-> ActiveSegment(l).nextOffset - 1, err |-> NoErr]
         ELSE [off |-> 0, err |-> NoErr]

\* a segment Log.Truncate(lowest) keeps
Kept(s, lowest) == ~(s.nextOffset <= lowest)

\* Log.Truncate(lowest): [log, err]
LogTruncate(l, lowest) ==
    [log |-> [l EXCEPT !.segments = SelectSeq(l.segments, LAMBDA s : Kept(s, lowest))],
     err |-> NoErr]

\* Log.Reader: every segment's store from position 0 to its size, in order
RECURSIVE ReaderFrom(_, _)
ReaderFrom(l, k) ==
    IF k > Len(l.segments) THEN <<>>
    ELSE StoreReadAt(l.segments[k].store, l.segments[k].store.size, 0).data
             \o ReaderFrom(l, k + 1)

LogReader(l) == ReaderFrom(l, 1)

\* Log.Close
LogClose(l) ==
    [l EXCEPT !.segments = [k \in 1..Len(l.segments) |-> SegmentClose(l.segments[k])]]

\* the directory a closed Log leaves
LogDir(l) == {SegmentFiles(l.segments[k]) : k \in 1..Len(l.segments)}

\* Log.Reset: close the segments, remove the files, open from scratch
LogReset(l) == NewLog({}, l.Config)

----------------------------------------------------------------------------
(* The FSM of the replicated log *)

\* fsm.applyAppend(b): [log, off, err]; err is the error returned as response
applyAppend(l, b) ==
    Let(UnmarshalRequest(b), LAMBDA req :
        IF req.err # NoErr THEN [log |-> l, off |-> 0, err |-> req.err]
        ELSE Let(LogAppend(l, req.rec), LAMBDA a :
                 IF a.err # NoErr THEN [log |-> a.log, off |-> 0, err |-> a.err]
                 ELSE [log |-> a.log, off |-> a.off, err |-> NoErr]))

\* fsm.Apply(record), data = record.Data: [log, off, err, isNil]
fsmApply(l, data) ==
    IF data[1] = AppendRequestType
    THEN Let(applyAppend(l, Tail(data)), LAMBDA r :
             [log |-> r.log, off |-> r.off, err |-> r.err, isNil |-> FALSE])
    ELSE [log |-> l, off |-> 0, err |-> NoErr, isNil |-> TRUE]

\* fsm.Snapshot and snapshot.Persist: the bytes copied from Log.Reader to the sink
fsmSnapshot(l) == LogReader(l)

\* fsm.Restore(r): [log, err]; pos bytes of r are consumed, i frames are done
RECURSIVE RestoreFrom(_, _, _, _)
RestoreFrom(l, r, pos, i) ==
    IF Len(r) - pos = 0 THEN [log |-> l, err |-> NoErr]
    ELSE IF Len(r) - pos < lenWidth THEN [log |-> l, err |-> ErrUnexpectedEOF]
    ELSE Let(Uint(SubSeq(r, pos + 1, pos + lenWidth)), LAMBDA size :
         IF Len(r) - pos - lenWidth < size THEN [log |-> l, err |-> EOF]
         ELSE Let(Unmarshal(SubSeq(r, pos + lenWidth + 1, pos + lenWidth + size)), LAMBDA u :
              IF u.err # NoErr THEN [log |-> l, err |-> u.err]
              ELSE Let(IF i = 0
                       THEN LogReset([l EXCEPT !.Config.InitialOffset = u.rec.Offset])
                       ELSE l, LAMBDA l1 :
                   Let(LogAppend(l1, u.rec), LAMBDA a :
                   Let(pos + lenWidth + size, LAMBDA next :
                       IF a.err # NoErr THEN [log |-> a.log, err |-> a.err]
                       ELSE RestoreFrom(a.log, r, next, i + 1))))))

fsmRestore(l, r) == RestoreFrom(l, r, 0, 0)

----------------------------------------------------------------------------
(* DistributedLog *)

ErrNotLeader == Err("ErrNotLeader")

ErrLeadershipLost == Err("ErrLeadershipLost")

\* the bytes DistributedLog.apply hands to raft.Apply
ApplyData(record) == <<AppendRequestType>> \o MarshalRequest(record)

\* DistributedLog.apply, from raft.Apply on: ferr is the future's error and resp
\* the response of fsm.Apply: [off, err]
DistributedLogApply(ferr, resp) ==
    IF ferr # NoErr THEN [off |-> 0, err |-> ferr]
    ELSE IF resp.err # NoErr THEN [off |-> 0, err |-> resp.err]
    ELSE [off |-> resp.off, err |-> NoErr]

\* DistributedLog.Append, from the return of l.apply on: [off, err, cause], cause
\* being the error l.apply returned
DistributedLogAppend(ferr, resp) ==
    Let(DistributedLogApply(ferr, resp), LAMBDA res :
        IF res.err # NoErr THEN [off |-> 0, err |-> NoErr, cause |-> res.err]
        ELSE [off |-> res.off, err |-> NoErr, cause |-> NoErr])

\* the response of an Apply whose future failed
NoResponse == [off |-> 0, err |-> NoErr]

----------------------------------------------------------------------------
(* The gRPC surface *)

\* ErrorOffsetOutOfRange.GRPCStatus formatting the last digit of the offset only
GRPCStatusLastDigit(e) ==
    [code    |-> NotFoundCode,
     message |-> <<"offset out of range: ">> \o <<Digit(e.Offset % 10)>>,
     details |-> <<"record at offset ">> \o <<Digit(e.Offset % 10)>>
                    \o <<" is outside log range">>]

\* ErrorOffsetOutOfRange.GRPCStatus
GRPCStatus(e) ==
    [code    |-> NotFoundCode,
     message |-> <<"offset out of range: ">> \o FmtUint(e.Offset),
     details |-> <<"record at offset ">> \o FmtUint(e.Offset)
                    \o <<" is outside log range">>]

OKStatus == [code |-> 0, message |-> <<>>, details |-> <<>>]

\* the status a handler's error reaches the client as
ServerStatus(err) ==
    IF err = NoErr THEN OKStatus
    ELSE IF err.kind = "ErrorOffsetOutOfRange" THEN GRPCStatus(err)
    ELSE [code |-> 2, message |-> <<err.kind>>, details |-> <<>>]

\* grpcServer.Consume(req) on a CommitLog: [log, rec, err, status]
Consume(l, off) ==
    Let(LogRead(l, off), LAMBDA r :
        IF r.err # NoErr
        THEN [log |-> r.log, rec |-> <<>>, err |-> r.err, status |-> ServerStatus(r.err)]
        ELSE [log |-> r.log, rec |-> r.rec, err |-> NoErr, status |-> OKStatus])

----------------------------------------------------------------------------
(* The state *)

\* the agents of TestAgent
NumNodes == 3

Nodes == 1..NumNodes

\* the node whose Log the single-node operations act on
Local == 1

\* the node a snapshot of Local is restored on
Target == 2

\* raft.Leader() = "": no leader is known
NoNode == 0

\* the threads that call Log.Append concurrently
Threads == {1, 2}

Configs ==
    { Config(32, 48, 0),    \* the store fills first, after three records
      Config(64, 12, 1),    \* the index fills first, after one record; InitialOffset = 1
      Config(64, 18, 0) }   \* MaxIndexBytes is no multiple of entWidth

\* the records clients produce; the second carries an offset set by the client
InputRecords == { Record(<<7>>, 0, 0, 0), Record(<<8, 9>>, 3, 0, 0) }

Offsets == 0..(MaxOffset + 1)

\* the offsets Consume is asked for: FarOffset is beyond every record
ReadOffsets == Offsets \cup {FarOffset}

VARIABLES
    logs,       \* logs[n]: the Log of node n (DistributedLog.log)
    last,       \* the last call made and what it returned
    appended,   \* appended[n]: successful Appends since logs[n] was opened empty
    threads,    \* threads[t]: where thread t is in its Log.Append call
    leader,     \* raft.Leader(): a node, or NoNode
    committed,  \* the commands the consensus layer has committed, in order
    applied,    \* applied[n]: how many committed commands node n's FSM has applied
    streams,    \* the ProduceStream and ConsumeStream calls of the gRPC server
    raftConf,   \* raft.GetConfiguration(): the servers of the cluster
    calls,      \* the Join and GetServers calls in progress
    cc,         \* the resolver's client connection
    gossip,     \* the membership events and the handler calls made for them
    conns,      \* the connections of the StreamLayer
    wait,       \* the WaitForLeader call and its clock
    st,         \* a store of its own, and what has been appended to its file
    ix,         \* an index of its own, and the entries written to its file
    rs,         \* a Resolver, its mutex and the calls made on it
    dl,         \* the DistributedLog of Local being closed
    rlog,       \* the log store of the consensus layer and the entries stored in it
    repl,       \* a Replicator, its goroutines and its channels
    builds      \* the resolvers Build has returned and their connections

vars == <<logs, last, appended, threads, leader, committed, applied,
          streams, raftConf, calls, cc, gossip, conns, wait, st, ix, rs, dl, rlog, repl, builds>>

\* the variables of the components taken on their own
unitVars == <<st, ix, rs, dl, rlog, repl, builds>>

\* the variables of the services around the log
svcVars == <<streams, raftConf, calls, cc, gossip, conns, wait, unitVars>>

raftVars == <<leader, committed, applied>>

\* no ProduceStream or ConsumeStream call has been made
\*   produce  pc, the request received, the result of each Produce call, the
\*            offsets sent in responses, the error the handler returned
\*   consume  pc, req.Offset, the offset the stream started at, the records
\*            sent, the iterations started after the cancellation, the error
\*   cancelled  stream.Context().Done() is closed
NoStreams ==
    [produce |-> [pc |-> "idle", req |-> <<>>, results |-> <<>>, sent |-> <<>>,
                  err |-> NoErr],
     consume |-> [pc |-> "idle", Offset |-> 0, start |-> 0, sent |-> <<>>,
                  late |-> 0, resp |-> <<>>, err |-> NoErr],
     cancelled |-> FALSE]

\* raft.Server{Suffrage, ID, Address}
Server(id, addr) == [ID |-> id, Address |-> addr, Suffrage |-> "Voter"]

\* the id and the address each node runs under
NodeID(n) == <<"id1", "id2", "id3">>[n]

NodeAddr(n) == <<"addr1", "addr2", "addr3">>[n]

\* the configuration of a cluster bootstrapped on its first node
Bootstrap == <<Server(NodeID(Local), NodeAddr(Local))>>

\* no Join, no GetServers and no ResolveNow is in progress
\*   join  pc, the node called, id and addr, the configuration read, the next
\*         server of the loop, the raft calls issued, the error returned
\*   get   pc, the configuration read, the entries built, the leader
\*         addresses the loop read, the error returned
NoCalls ==
    [join |-> [pc |-> "idle", node |-> NoNode, id |-> "", addr |-> "", conf |-> <<>>,
               i |-> 0, removes |-> 0, adds |-> 0, err |-> NoErr],
     get  |-> [pc |-> "idle", conf |-> <<>>, servers |-> <<>>, leaders |-> {},
               err |-> NoErr]]

\* the client connection before Resolver.Build: no state has been published
\*   built      Build has run (r.clientConn is set)
\*   updates    the UpdateState calls made
\*   Addresses  resolver.State.Addresses of the last UpdateState
NoState == [built |-> FALSE, Addresses |-> <<>>]

NoGossip == [events |-> <<>>, e |-> 1, m |-> 1, made |-> <<>>]

NoConns == <<>>

NoWait == [pc |-> "idle", timeout |-> 0, now |-> 0, timeoutCh |-> FALSE,
           tickerC |-> FALSE, polls |-> 0, observed |-> FALSE, err |-> NoErr]

\* a store opened on a new file
\*   store    the store
\*   written  the frames appended to the file and still on it or in the
\*            buffer: position, length and payload
\*   s0       the size the store was opened with
\*   since    the frames the file held when the store was opened
\*   clean    the store was closed without error and not appended to since
\*   opened   how the store was opened: on a new file, on the file of a
\*            store closed cleanly, or on the file of another store
\*   last     the last call, the size and the file length it found, and
\*            what it returned
NoStore ==
    [store |-> newStore(<<>>), written |-> <<>>, s0 |-> 0, since |-> 0,
     clean |-> FALSE, opened |-> "new",
     last |-> [op |-> "newStore", arg |-> 0, size |-> 0, flen |-> 0, n |-> 0,
               pos |-> 0, data |-> <<>>, err |-> NoErr]]

\* no index has been made yet
\*   pc       "idle", "open" or "closed"
\*   c        the configuration the index is opened with
\*   index    the index
\*   entries  the entries written to the file
\*   opens    how many times the file has been opened
\*   last     the last call, the size it found, and what it returned
NoIndex ==
    [pc |-> "idle", c |-> Config(0, 0, 0), index |-> [file |-> <<>>, size |-> 0],
     entries |-> <<>>, opens |-> 0,
     last |-> [op |-> "none", arg |-> 0, size |-> 0, out |-> 0, pos |-> 0, err |-> NoErr]]

\* a Resolver nothing has been called on
\*   mu         the goroutine that holds r.mu, 0 when it is free
\*   op, pc     the call each goroutine is in and where it is
\*   clientConn, serverConfig, resolverConn
\*              the fields: "" (nil) or the value a Build gave them
\*   unguarded  the accesses made to the three fields without holding r.mu
NoResolver ==
    [mu |-> 0, op |-> [g \in Threads |-> "none"], pc |-> [g \in Threads |-> "idle"],
     clientConn |-> "", serverConfig |-> "", resolverConn |-> "",
     unguarded |-> {}]

\* DistributedLog.Close has not been called on Local
\*   step       the statement of Close that comes next, 0 once it returned
\*   raft       the consensus layer of Local is "running" or "stopped"
\*   logClosed  l.log.Close() has been called
\*   late       an FSM Apply reached the Log after it was closed
\*   failed     the shutdown future failed
\*   err        what Close returned
NoClose ==
    [step |-> 1, raft |-> "running", logClosed |-> FALSE, late |-> FALSE,
     failed |-> FALSE, err |-> NoErr]

----------------------------------------------------------------------------
(* logStore: the Log as the consensus layer's log store.                   *)

\* a raft.Log entry
RaftLog(index, term, type, data) ==
    [Index |-> index, Term |-> term, Type |-> type, Data |-> data]

\* logStore.FirstIndex: [off, err]
FirstIndex(l) == LowestOffset(l)

\* logStore.LastIndex: [off, err]
LastIndex(l) == HighestOffset(l)

\* logStore.GetLog(index, out): [log, out, err]
GetLog(l, index, out) ==
    Let(LogRead(l, index), LAMBDA in :
        IF in.err # NoErr THEN [log |-> in.log, out |-> out, err |-> in.err]
        ELSE [log |-> in.log,
              out |-> [out EXCEPT !.Data = in.rec[1].Value,
                                  !.Index = in.rec[1].Offset,
                                  !.Term = in.rec[1].Term],
              err |-> NoErr])

\* logStore.StoreLogs(logs): [log, done, err], done the entries appended
RECURSIVE StoreLogs(_, _, _)
StoreLogs(l, entries, k) ==
    IF k > Len(entries) THEN [log |-> l, done |-> k - 1, err |-> NoErr]
    ELSE Let(LogAppend(l, Record(entries[k].Data, 0, entries[k].Term, entries[k].Type)),
             LAMBDA a :
                 IF a.err # NoErr THEN [log |-> a.log, done |-> k - 1, err |-> a.err]
                 ELSE StoreLogs(a.log, entries, k + 1))

\* logStore.DeleteRange truncating at max
DeleteRangeMax(l, min, max) == LogTruncate(l, max)

\* logStore.DeleteRange(min, max): [log, err]
DeleteRange(l, min, max) == LogTruncate(l, min)

\* the zero raft.Log
ZeroRaftLog == RaftLog(0, 0, 0, <<>>)

\* setupRaft has not made the log store yet
\*   pc       "none", or "open" once newLogStore has returned
\*   log      the Log behind the log store
\*   stored   stored[i]: the entry the consensus layer stored with index i
\*   deleted  the DeleteRange calls made
\*   last     the last call, its arguments, LastIndex before it (hi) and
\*            what it returned
NoLogStore ==
    [pc |-> "none", log |-> NewLog({}, Config(0, 0, 1)), stored |-> <<>>,
     deleted |-> 0,
     last |-> [op |-> "none", index |-> 0, min |-> 0, max |-> 0, hi |-> 0,
               out |-> ZeroRaftLog, err |-> NoErr]]

\* the peers a Replicator is told about
Peers == {"p1", "p2"}

\* the zero Replicator, before its first Join, Leave or Close
\*   servers  r.servers: for each name 0 (not in the map), or the number of
\*            the task whose leave channel the map holds
\*   closed   r.closed
\*   close    r.close: "nil", "open" or "closed"
\*   tasks    the replicate goroutines started, in order; for each one
\*              name   the peer
\*              leave  its leave channel, "open" or "closed"
\*              pc     where replicate is: "dial", "stream", "select",
\*                     "produce" or "done" (returned)
\*              recv   the goroutine receiving from the stream: "none" (not
\*                     started), "recv" (in stream.Recv), "send" (blocked on
\*                     records <- resp.Record) or "done" (returned)
\*              cc     the connection: "none", "open" or "closed"
\*   panic    a closed channel has been closed again
\*   last     the last call and whether it started a task
NoReplicator ==
    [servers |-> [p \in Peers |-> 0], closed |-> FALSE, close |-> "nil",
     tasks |-> <<>>, panic |-> FALSE,
     last |-> [op |-> "none", name |-> "", started |-> FALSE]]

\* the one Resolver init registers, before any Build, and the connections
\*   clientConn, serverConfig, resolverConn
\*              the fields: 0 (nil) or the number of the Build that set them
\*   calls      the Builds made; Build k is made for client connection k
\*              and its grpc.Dial, when it succeeds, gives bootstrap conn k
\*   built      for each resolver a Build returned, the client connection
\*              it was built for and the bootstrap connection it dialed
\*   open       the bootstrap connections dialed and not closed
\*   updated    the client connections UpdateState was called on
\*   panic      a nil bootstrap connection was used
\*   last       the last call, the resolver it was made on, the client
\*              connection it updated and the bootstrap connection it closed
NoBuilds ==
    [clientConn |-> 0, serverConfig |-> 0, resolverConn |-> 0, calls |-> 0,
     built |-> <<>>, open |-> {}, updated |-> {}, panic |-> FALSE,
     last |-> [op |-> "none", on |-> 0, updated |-> 0, closed |-> 0]]

Call(op, node, arg, off, rec, err, cause, status) ==
    [op |-> op, node |-> node, arg |-> arg, off |-> off, rec |-> rec,
     err |-> err, cause |-> cause, status |-> status]

Idle == [pc |-> "idle", rec |-> <<>>]

Init ==
    /\ \E c \in Configs : logs = [n \in Nodes |-> NewLog({}, c)]
    /\ last = Call("none", NoNode, 0, 0, <<>>, NoErr, NoErr, OKStatus)
    /\ appended = [n \in Nodes |-> 0]
    /\ threads = [t \in Threads |-> Idle]
    /\ leader = NoNode
    /\ committed = <<>>
    /\ applied = [n \in Nodes |-> 0]
    /\ streams = NoStreams
    /\ raftConf = Bootstrap
    /\ calls = NoCalls
    /\ cc = NoState
    /\ gossip = NoGossip
    /\ conns = NoConns
    /\ wait = NoWait
    /\ st = NoStore
    /\ ix = NoIndex
    /\ rs = NoResolver
    /\ dl = NoClose
    /\ rlog = NoLogStore
    /\ repl = NoReplicator
    /\ builds = NoBuilds

\* the configurations of the cluster's nodes
ClusterConfigs == { Config(32, 48, 0), Config(64, 18, 0) }

InitCluster ==
    /\ Init
    /\ logs[Local].Config \in ClusterConfigs

\* the frames of a store, counted over the file and the write buffer
RECURSIVE FrameCount(_, _)
FrameCount(bs, pos) ==
    IF Len(bs) - pos < lenWidth THEN 0
    ELSE Let(pos + lenWidth + Uint(SubSeq(bs, pos + 1, pos + lenWidth)),
             LAMBDA next : 1 + FrameCount(bs, next))

\* the frames of a segment's store that no index entry points to
Orphans(s) ==
    Let(s.store.file \o s.store.buf,
        LAMBDA bs : FrameCount(bs, 0) - (s.index.size \div entWidth))

\* the model stops appending once the next offset would pass MaxOffset, and
\* once MaxOrphans appends have failed on the active segment
CanAppend(l) ==
    IF l.segments = <<>> THEN TRUE
    ELSE /\ ActiveSegment(l).nextOffset <= MaxOffset
         /\ Orphans(ActiveSegment(l)) < MaxOrphans

----------------------------------------------------------------------------
(* The operations on one node's Log *)

\* Log.Append(record) on node n, from the lock to the return
AppendStep(n, record) ==
    /\ CanAppend(logs[n])
    /\ \E a \in {LogAppend(logs[n], record)} :
          /\ logs' = [logs EXCEPT ![n] = a.log]
          /\ appended' = [appended EXCEPT ![n] = IF a.err = NoErr THEN @ + 1 ELSE @]
          /\ last' = Call("Append", n, 0, a.off, <<record>>, a.err, NoErr, OKStatus)

\* Log.Append(record)
DoAppend(n, record) ==
    /\ AppendStep(n, record)
    /\ UNCHANGED <<threads, raftVars>>
    /\ UNCHANGED svcVars

\* the Consume RPC: Log.Read(off) behind grpcServer.Consume
DoConsume(n, off) ==
    /\ \E r \in {Consume(logs[n], off)} :
          /\ logs' = [logs EXCEPT ![n] = r.log]
          /\ last' = Call("Consume", n, off, 0, r.rec, r.err, NoErr, r.status)
    /\ UNCHANGED <<appended, threads, raftVars>>
    /\ UNCHANGED svcVars

\* Log.Truncate(lowest)
DoTruncate(n, lowest) ==
    /\ \E t \in {LogTruncate(logs[n], lowest)} :
          /\ logs' = [logs EXCEPT ![n] = t.log]
          /\ last' = Call("Truncate", n, lowest, 0, <<>>, t.err, NoErr, OKStatus)
    /\ UNCHANGED <<appended, threads, raftVars>>
    /\ UNCHANGED svcVars

\* Log.Reset
DoReset(n) ==
    /\ logs' = [logs EXCEPT ![n] = LogReset(logs[n])]
    /\ appended' = [appended EXCEPT ![n] = 0]
    /\ last' = Call("Reset", n, 0, 0, <<>>, NoErr, NoErr, OKStatus)
    /\ UNCHANGED <<threads, raftVars>>
    /\ UNCHANGED svcVars

\* Log.Close, then NewLog on the same directory with the same config
DoReopen(n) ==
    /\ \E dir \in {LogDir(LogClose(logs[n]))} :
          /\ logs' = [logs EXCEPT ![n] = NewLog(dir, logs[n].Config)]
          /\ appended' = [appended EXCEPT ![n] = IF dir = {} THEN 0 ELSE @]
    /\ last' = Call("Reopen", n, 0, 0, <<>>, NoErr, NoErr, OKStatus)
    /\ UNCHANGED <<threads, raftVars>>
    /\ UNCHANGED svcVars

\* a thread calls Log.Append(record)
ThreadCall(t, record) ==
    /\ threads[t].pc = "idle"
    /\ threads' = [threads EXCEPT ![t] = [pc |-> "called", rec |-> <<record>>]]
    /\ UNCHANGED <<logs, last, appended, raftVars>>
    /\ UNCHANGED svcVars

\* l.mu.Lock(): the thread takes the Log's write lock
ThreadLock(t) ==
    /\ threads[t].pc = "called"
    /\ \A u \in Threads : threads[u].pc # "locked"
    /\ threads' = [threads EXCEPT ![t].pc = "locked"]
    /\ UNCHANGED <<logs, last, appended, raftVars>>
    /\ UNCHANGED svcVars

\* the body of Log.Append under the lock, the unlock and the return
ThreadAppend(t) ==
    /\ threads[t].pc = "locked"
    /\ AppendStep(Local, threads[t].rec[1])
    /\ threads' = [threads EXCEPT ![t] = Idle]
    /\ UNCHANGED raftVars
    /\ UNCHANGED svcVars

\* fsm.Snapshot on node a, persisted, and fsm.Restore of it on node b, whose
\* Log is empty
DoSnapshotRestore(a, b) ==
    /\ logs[a].segments # <<>>
    /\ \E r \in {fsmRestore(NewLog({}, logs[b].Config), fsmSnapshot(logs[a]))} :
          /\ logs' = [logs EXCEPT ![b] = r.log]
          /\ last' = Call("Restore", b, 0, 0, <<>>, r.err, NoErr, OKStatus)
    /\ UNCHANGED <<appended, threads, raftVars>>
    /\ UNCHANGED svcVars

----------------------------------------------------------------------------
(* The replicated log: the consensus layer commits commands in one order   *)
(* and hands them, in that order, to the FSM of every node.                *)

\* the record of the k-th Produce request the cluster is sent: its value is k
ClientRecord(k) == Record(<<k>>, 0, 0, 0)

\* the record of the next Produce request
NextRecord == ClientRecord(Len(committed) + 1)

\* the consensus layer elects node n
BecomeLeader(n) ==
    /\ leader = NoNode
    /\ leader' = n
    /\ UNCHANGED <<logs, last, appended, threads, committed, applied>>
    /\ UNCHANGED svcVars

\* the leader steps down
LoseLeadership ==
    /\ leader # NoNode
    /\ leader' = NoNode
    /\ UNCHANGED <<logs, last, appended, threads, committed, applied>>
    /\ UNCHANGED svcVars

\* DistributedLog.Append(NextRecord) on a node that is not the leader: raft.Apply
\* fails with ErrNotLeader
AppendNotLeader(n) ==
    /\ leader # n
    /\ \E res \in {DistributedLogAppend(ErrNotLeader, NoResponse)} :
          last' = Call("DistributedLog.Append", NoNode, 0, res.off, <<>>,
                       res.err, res.cause, OKStatus)
    /\ UNCHANGED <<logs, appended, threads, raftVars>>
    /\ UNCHANGED svcVars

\* DistributedLog.Append(NextRecord) on the leader: the command is committed, the
\* leader's FSM applies it and the future carries the FSM's response
AppendOnLeader(n) ==
    /\ leader = n
    /\ applied[n] = Len(committed)
    /\ Len(committed) < MaxCommits
    /\ \E data \in {ApplyData(NextRecord)} :
       \E resp \in {fsmApply(logs[n], data)} :
       \E res \in {DistributedLogAppend(NoErr, resp)} :
          /\ committed' = Append(committed, data)
          /\ logs' = [logs EXCEPT ![n] = resp.log]
          /\ applied' = [applied EXCEPT ![n] = @ + 1]
          /\ last' = Call("DistributedLog.Append", NoNode, resp.off, res.off, <<>>,
                          res.err, res.cause, OKStatus)
    /\ UNCHANGED <<appended, threads, leader>>
    /\ UNCHANGED svcVars

\* DistributedLog.Append(NextRecord) on a leader that loses leadership while the
\* command is in flight: the future fails, the command may still be committed
AppendLeadershipLost(n) ==
    /\ leader = n
    /\ Len(committed) < MaxCommits
    /\ leader' = NoNode
    /\ \E kept \in BOOLEAN :
          committed' = IF kept THEN Append(committed, ApplyData(NextRecord)) ELSE committed
    /\ \E res \in {DistributedLogAppend(ErrLeadershipLost, NoResponse)} :
          last' = Call("DistributedLog.Append", NoNode, 0, res.off, <<>>,
                       res.err, res.cause, OKStatus)
    /\ UNCHANGED <<logs, appended, threads, applied>>
    /\ UNCHANGED svcVars

\* the consensus layer hands node n's FSM the next committed command
FsmApply(n) ==
    /\ applied[n] < Len(committed)
    /\ \E resp \in {fsmApply(logs[n], committed[applied[n] + 1])} :
          logs' = [logs EXCEPT ![n] = resp.log]
    /\ applied' = [applied EXCEPT ![n] = @ + 1]
    /\ UNCHANGED <<last, appended, threads, leader, committed>>
    /\ UNCHANGED svcVars

\* the leader a sends follower b, which lags behind, a snapshot of its FSM:
\* fsm.Snapshot and Persist on a, fsm.Restore on b
InstallSnapshot(a, b) ==
    /\ leader = a
    /\ applied[b] < applied[a]
    /\ \E r \in {fsmRestore(logs[b], fsmSnapshot(logs[a]))} :
          /\ logs' = [logs EXCEPT ![b] = r.log]
          /\ applied' = [applied EXCEPT ![b] = IF r.err = NoErr THEN applied[a] ELSE @]
    /\ UNCHANGED <<last, appended, threads, leader, committed>>
    /\ UNCHANGED svcVars

\* DistributedLog.Read(offset) on node n
ReadOn(n, off) ==
    /\ \E r \in {LogRead(logs[n], off)} :
          /\ r.log # logs[n]
          /\ logs' = [logs EXCEPT ![n] = r.log]
    /\ UNCHANGED <<last, appended, threads, raftVars>>
    /\ UNCHANGED svcVars

Next ==
    \/ \E record \in InputRecords : DoAppend(Local, record)
    \/ \E off \in ReadOffsets : DoConsume(Local, off)
    \/ \E lowest \in Offsets : DoTruncate(Local, lowest)
    \/ DoReset(Local)
    \/ DoReopen(Local)

Spec == Init /\ [][Next]_vars

NextThreads ==
    \/ \E t \in Threads, record \in InputRecords : ThreadCall(t, record)
    \/ \E t \in Threads : ThreadLock(t)
    \/ \E t \in Threads : ThreadAppend(t)
    \/ DoReopen(Local)

SpecThreads == Init /\ [][NextThreads]_vars

NextSnapshot ==
    \/ \E record \in InputRecords : DoAppend(Local, record)
    \/ \E off \in Offsets : DoConsume(Local, off)
    \/ \E lowest \in Offsets : DoTruncate(Local, lowest)
    \/ DoSnapshotRestore(Local, Target)

SpecSnapshot == Init /\ [][NextSnapshot]_vars

NextCluster ==
    \/ \E n \in Nodes : BecomeLeader(n)
    \/ LoseLeadership
    \/ \E n \in Nodes : AppendNotLeader(n)
    \/ \E n \in Nodes : AppendOnLeader(n)
    \/ \E n \in Nodes : AppendLeadershipLost(n)
    \/ \E n \in Nodes : FsmApply(n)
    \/ \E a \in Nodes, b \in Nodes : InstallSnapshot(a, b)
    \/ \E n \in Nodes, off \in Offsets : ReadOn(n, off)

\* the consensus layer keeps handing committed commands to every FSM
SpecCluster ==
    /\ InitCluster
    /\ [][NextCluster]_vars
    /\ \A n \in Nodes : WF_vars(FsmApply(n))

----------------------------------------------------------------------------
(* Properties of the Log *)

\* the log holds at least one record
HasRecords(l) ==
    l.segments # <<>> /\ ActiveSegment(l).nextOffset > l.segments[1].baseOffset

\* no segment of the log covers the offset
Uncovered(l, off) == \A k \in 1..Len(l.segments) : ~Covers(l.segments[k], off)

\* C1: when Log.Append(r) has returned offset o, Log.Read(o) on the same node
\* succeeds and returns a record with r's value bytes and offset field o
C1_AppendReadRoundTrip ==
    (last.op = "Append" /\ last.err = NoErr) =>
        \A r \in {LogRead(logs[last.node], last.off)} :
            /\ r.err = NoErr
            /\ Len(r.rec) = 1
            /\ r.rec[1].Value = last.rec[1].Value
            /\ r.rec[1].Offset = last.off

\* an Append into the second segment returned an offset that differs from the
\* offset field the client had set
C1_Witness ==
    /\ last.op = "Append"
    /\ last.err = NoErr
    /\ last.off >= 2
    /\ last.rec[1].Offset # last.off
    /\ Len(logs[Local].segments) > 1

\* C2: on a Log opened empty with InitialOffset = b, the k-th successful Append
\* returns b + k - 1, whichever thread made it and whatever segment took it
C2_OffsetsDense ==
    (last.op = "Append" /\ last.err = NoErr) =>
        last.off = logs[Local].Config.InitialOffset + appended[Local] - 1

\* a third Append succeeded after a rollover while another thread's call was
\* waiting for the lock
C2_Witness ==
    /\ last.op = "Append"
    /\ last.err = NoErr
    /\ appended[Local] >= 3
    /\ Len(logs[Local].segments) > 1
    /\ \E t \in Threads : threads[t].pc = "called"

\* what the next Log.Append returns on a log whose highest offset is h
NextAppendOffset(l) ==
    IF HasRecords(l) THEN HighestOffset(l).off + 1 ELSE ActiveSegment(l).baseOffset

\* C3: closing the Log and reopening it on the same directory with the same
\* config keeps LowestOffset, HighestOffset and every readable record, and an
\* Append that then succeeds returns the old HighestOffset + 1 (the base offset
\* of the active segment when the log holds no record)
C3_Persistence ==
    [][(last'.op = "Reopen" /\ logs[Local].segments # <<>>) =>
          /\ LowestOffset(logs'[Local]) = LowestOffset(logs[Local])
          /\ HighestOffset(logs'[Local]) = HighestOffset(logs[Local])
          /\ \A off \in Offsets :
                \A r \in {LogRead(logs[Local], off)} :
                    r.err = NoErr =>
                        \A q \in {LogRead(logs'[Local], off)} :
                            q.err = NoErr /\ q.rec = r.rec
          /\ \A record \in InputRecords :
                \A a \in {LogAppend(logs'[Local], record)} :
                    a.err = NoErr => a.off = NextAppendOffset(logs[Local])
      ]_vars

\* a log of two segments holding three records or more has been reopened
C3_Witness ==
    /\ last.op = "Reopen"
    /\ Len(logs[Local].segments) > 1
    /\ HighestOffset(logs[Local]).off >= 2
    /\ LowestOffset(logs[Local]).off = logs[Local].Config.InitialOffset

----------------------------------------------------------------------------
(* Properties of the replicated log *)

\* C4: at every state of the cluster, an offset that two replicas can both
\* read holds the same record on both
C4_ReplicasAgree ==
    \A a \in Nodes, b \in Nodes : \A off \in Offsets :
        \A ra \in {LogRead(logs[a], off)} : \A rb \in {LogRead(logs[b], off)} :
            (ra.err = NoErr /\ rb.err = NoErr) => ra.rec = rb.rec

\* node n reads the record of the k-th committed command at offset k - 1 (the
\* logs of the cluster start at offset 0)
ReadsCommitted(n, k) ==
    \A r \in {LogRead(logs[n], k - 1)} :
        /\ r.err = NoErr
        /\ Len(r.rec) = 1
        /\ r.rec[1].Value = ClientRecord(k).Value

\* C5: once the leader has committed the records r0..rn, every node of the
\* 3-node cluster eventually reads ri at offset i, for every i up to n
C5_Convergence ==
    \A n \in Nodes : \A k \in 1..MaxCommits :
        (Len(committed) >= k) ~> ReadsCommitted(n, k)

\* C6: DistributedLog.Append returns an error whenever the consensus Apply
\* failed or the FSM answered with an error, and otherwise returns the offset
\* the FSM's Log.Append assigned
C6_AppendSurfacesError ==
    last.op = "DistributedLog.Append" =>
        /\ last.cause # NoErr => last.err # NoErr
        /\ last.cause = NoErr => (last.err = NoErr /\ last.off = last.arg)

----------------------------------------------------------------------------
(* Properties of reads out of range, of Truncate and of snapshots *)

\* the decimal number a sequence of digit characters denotes
RECURSIVE Atoi(_)
Atoi(ds) ==
    IF ds = <<>> THEN 0
    ELSE 10 * Atoi(SubSeq(ds, 1, Len(ds) - 1))
            + (CHOOSE d \in 0..9 : Digit(d) = ds[Len(ds)])

\* the detail message is the one of GRPCStatus and its digits denote off
NamesOffset(details, off) ==
    /\ Len(details) >= 3
    /\ details[1] = "record at offset "
    /\ details[Len(details)] = " is outside log range"
    /\ \A i \in 2..(Len(details) - 1) : \E d \in 0..9 : Digit(d) = details[i]
    /\ Atoi(SubSeq(details, 2, Len(details) - 1)) = off

\* C7: Log.Read(o) of an offset no segment covers returns no record and an
\* ErrorOffsetOutOfRange carrying o, leaves the log as it was, and reaches the
\* client of Consume as the status with code 404 whose detail names o
C7_OutOfRange ==
    [][(last'.op = "Consume" /\ Uncovered(logs[Local], last'.arg)) =>
          /\ last'.rec = <<>>
          /\ last'.err = ErrorOffsetOutOfRange(last'.arg)
          /\ logs' = logs
          /\ last'.status.code = NotFoundCode
          /\ NamesOffset(last'.status.details, last'.arg)
      ]_vars

\* a Consume below LowestOffset, on a log that holds records, was refused
C7_Witness ==
    /\ last.op = "Consume"
    /\ last.err = ErrorOffsetOutOfRange(last.arg)
    /\ HasRecords(logs[Local])
    /\ last.arg < LowestOffset(logs[Local]).off

\* C8: after Log.Truncate(k) with k up to HighestOffset, LowestOffset() >= k
C8_TruncateLowest ==
    [][(/\ last'.op = "Truncate"
        /\ last'.err = NoErr
        /\ HasRecords(logs[Local])
        /\ last'.arg <= HighestOffset(logs[Local]).off) =>
          /\ LowestOffset(logs'[Local]).err = NoErr
          /\ LowestOffset(logs'[Local]).off >= last'.arg
      ]_vars

\* C9: Log.Truncate(k) leaves HighestOffset as it was, leaves no offset below
\* LowestOffset readable and leaves every record from LowestOffset to
\* HighestOffset readable with the bytes it had
C9_TruncateFrame ==
    [][(last'.op = "Truncate" /\ last'.err = NoErr /\ logs[Local].segments # <<>>) =>
          /\ HighestOffset(logs'[Local]) = HighestOffset(logs[Local])
          /\ LowestOffset(logs'[Local]).err = NoErr
          /\ \A off \in Offsets :
                \A q \in {LogRead(logs'[Local], off)} :
                    IF off < LowestOffset(logs'[Local]).off
                    THEN q.err = ErrorOffsetOutOfRange(off)
                    ELSE (HasRecords(logs[Local])
                            /\ off <= HighestOffset(logs[Local]).off) =>
                         (q.err = NoErr /\ q.rec = LogRead(logs[Local], off).rec)
      ]_vars

\* C10: after a snapshot of node Local has been restored on the empty node
\* Target, Target has Local's LowestOffset and HighestOffset and reads, at
\* every offset between them, the record Local reads
C10_SnapshotRestore ==
    last.op = "Restore" =>
        /\ last.err = NoErr
        /\ LowestOffset(logs[Target]) = LowestOffset(logs[Local])
        /\ HighestOffset(logs[Target]) = HighestOffset(logs[Local])
        /\ \A off \in Offsets :
              \A ra \in {LogRead(logs[Local], off)} :
                  ra.err = NoErr =>
                      \A rb \in {LogRead(logs[Target], off)} :
                          rb.err = NoErr /\ rb.rec = ra.rec

----------------------------------------------------------------------------
(* Properties of Log.Reader *)

\* the frame store.Append writes for a record: [len:8][proto-encoded record]
Frame(rec) == Let(Marshal(rec), LAMBDA m : PutUint(Len(m), lenWidth) \o m)

\* the frames of the records Log.Read returns at the offsets off..hi
RECURSIVE FramesFrom(_, _, _)
FramesFrom(l, off, hi) ==
    IF off > hi THEN <<>>
    ELSE Let(LogRead(l, off), LAMBDA r :
             (IF r.err = NoErr THEN Frame(r.rec[1]) ELSE <<>>)
                 \o FramesFrom(l, off + 1, hi))

\* C11: at any moment the stream of Log.Reader, read to its end, is the frames
\* of the records at LowestOffset..HighestOffset in offset order, records that
\* were appended and never read since included
C11_ReaderFrames ==
    logs[Local].segments # <<>> =>
        LogReader(logs[Local]) =
            IF HasRecords(logs[Local])
            THEN FramesFrom(logs[Local], LowestOffset(logs[Local]).off,
                            HighestOffset(logs[Local]).off)
            ELSE <<>>

----------------------------------------------------------------------------
(* The streaming RPCs of the gRPC server.  The server's CommitLog is the   *)
(* DistributedLog of node Local.                                           *)

\* requests one ProduceStream receives in the model
MaxRequests == 2

\* the offsets a ConsumeStream is started at
StartOffsets == {0, 1}

ErrCanceled == Err("Canceled")

ErrTransport == Err("Unavailable")

\* the dynamic type of an error value: Log.Read returns the pointer
\* *api.ErrorOffsetOutOfRange, the only type that has the Error method
TypeOf(err) ==
    IF err = NoErr THEN "nil"
    ELSE IF err.kind = "ErrorOffsetOutOfRange" THEN "*api.ErrorOffsetOutOfRange"
    ELSE "error"

\* the type switch of ConsumeStream on the error of Consume: what the loop does
ConsumeStreamSwitch(err) ==
    CASE TypeOf(err) = "nil" -> "send"
      [] TypeOf(err) = "api.ErrorOffsetOutOfRange" -> "continue"
      [] OTHER -> "return"

\* grpcServer.Produce(ctx, req) from the result of CommitLog.Append: [resp, err]
Produce(res) ==
    IF res.err # NoErr THEN [resp |-> <<>>, err |-> res.err]
    ELSE [resp |-> <<res.off>>, err |-> NoErr]

\* the handler of ProduceStream is called
ProduceStreamCall ==
    /\ streams.produce.pc = "idle"
    /\ streams' = [streams EXCEPT !.produce.pc = "recv"]
    /\ UNCHANGED <<logs, last, appended, threads, raftVars>>
    /\ UNCHANGED <<raftConf, calls, cc, gossip, conns, wait, unitVars>>

\* stream.Recv() returns a request
ProduceStreamRecv(record) ==
    /\ streams.produce.pc = "recv"
    /\ Len(streams.produce.results) < MaxRequests
    /\ streams' = [streams EXCEPT !.produce.pc = "produce", !.produce.req = <<record>>]
    /\ UNCHANGED <<logs, last, appended, threads, raftVars>>
    /\ UNCHANGED <<raftConf, calls, cc, gossip, conns, wait, unitVars>>

\* stream.Recv() fails (the client has closed the stream): the handler returns
\* the error
ProduceStreamRecvFail ==
    /\ streams.produce.pc = "recv"
    /\ streams' = [streams EXCEPT !.produce.pc = "done", !.produce.err = EOF]
    /\ UNCHANGED <<logs, last, appended, threads, raftVars>>
    /\ UNCHANGED <<raftConf, calls, cc, gossip, conns, wait, unitVars>>

\* s.Produce(stream.Context(), req): DistributedLog.Append on node Local.  The
\* result records the offset sent back, the error of l.apply (cause) and what
\* the FSM's Log.Append returned (fsm)
ProduceStreamProduce ==
    /\ streams.produce.pc = "produce"
    /\ leader = Local => CanAppend(logs[Local])
    /\ \E record \in {streams.produce.req[1]} :
       \E data \in {ApplyData(record)} :
       \E resp \in {IF leader = Local
                     THEN fsmApply(logs[Local], data)
                     ELSE [log |-> logs[Local], off |-> 0, err |-> NoErr, isNil |-> TRUE]} :
       \E res \in {IF leader = Local
                    THEN DistributedLogAppend(NoErr, resp)
                    ELSE DistributedLogAppend(ErrNotLeader, NoResponse)} :
       \E p \in {Produce(res)} :
          /\ logs' = [logs EXCEPT ![Local] = resp.log]
          /\ committed' = IF resp.isNil THEN committed ELSE Append(committed, data)
          /\ applied' = [applied EXCEPT ![Local] = IF resp.isNil THEN @ ELSE @ + 1]
          /\ streams' =
                [streams EXCEPT
                    !.produce.results =
                        Append(@, [rec |-> record, resp |-> p.resp, err |-> p.err,
                                   cause |-> res.cause,
                                   fsm |-> IF resp.isNil \/ resp.err # NoErr
                                           THEN <<>> ELSE <<resp.off>>]),
                    !.produce.pc = IF p.err # NoErr THEN "done" ELSE "send",
                    !.produce.err = p.err]
    /\ UNCHANGED <<last, appended, threads, leader>>
    /\ UNCHANGED <<raftConf, calls, cc, gossip, conns, wait, unitVars>>

\* stream.Send(resp): it succeeds, or it fails and the handler returns the error
ProduceStreamSend(ok) ==
    /\ streams.produce.pc = "send"
    /\ \E r \in {streams.produce.results[Len(streams.produce.results)]} :
          streams' = IF ok
                     THEN [streams EXCEPT !.produce.sent = Append(@, r.resp[1]),
                                          !.produce.pc = "recv"]
                     ELSE [streams EXCEPT !.produce.pc = "done", !.produce.err = ErrTransport]
    /\ UNCHANGED <<logs, last, appended, threads, raftVars>>
    /\ UNCHANGED <<raftConf, calls, cc, gossip, conns, wait, unitVars>>

\* the handler of ConsumeStream is called with req.Offset = off
ConsumeStreamCall(off) ==
    /\ streams.consume.pc = "idle"
    /\ streams' = [streams EXCEPT !.consume.pc = "select", !.consume.Offset = off,
                                  !.consume.start = off]
    /\ UNCHANGED <<logs, last, appended, threads, raftVars>>
    /\ UNCHANGED <<raftConf, calls, cc, gossip, conns, wait, unitVars>>

\* select: the handler returns nil when stream.Context().Done() is closed and
\* takes the default branch otherwise
ConsumeStreamSelect ==
    /\ streams.consume.pc = "select"
    /\ streams' = IF streams.cancelled
                  THEN [streams EXCEPT !.consume.pc = "done", !.consume.err = NoErr]
                  ELSE [streams EXCEPT !.consume.pc = "read"]
    /\ UNCHANGED <<logs, last, appended, threads, raftVars>>
    /\ UNCHANGED <<raftConf, calls, cc, gossip, conns, wait, unitVars>>

\* s.Consume(stream.Context(), req) and the type switch on its error; late
\* counts the calls made after the context was cancelled
ConsumeStreamRead ==
    /\ streams.consume.pc = "read"
    /\ \E r \in {Consume(logs[Local], streams.consume.Offset)} :
       \E branch \in {ConsumeStreamSwitch(r.err)} :
       \E n \in {streams.consume.late + (IF streams.cancelled THEN 1 ELSE 0)} :
          /\ logs' = [logs EXCEPT ![Local] = r.log]
          /\ streams' =
                CASE branch = "send" ->
                        [streams EXCEPT !.consume.pc = "send", !.consume.resp = r.rec,
                                        !.consume.late = n]
                  [] branch = "continue" ->
                        [streams EXCEPT !.consume.pc = "select", !.consume.late = n]
                  [] OTHER ->
                        [streams EXCEPT !.consume.pc = "done", !.consume.err = r.err,
                                        !.consume.late = n]
    /\ UNCHANGED <<last, appended, threads, raftVars>>
    /\ UNCHANGED <<raftConf, calls, cc, gossip, conns, wait, unitVars>>

\* stream.Send(resp) and req.Offset++; the send can fail only once the client
\* is gone, that is once the context is cancelled
ConsumeStreamSend(ok) ==
    /\ streams.consume.pc = "send"
    /\ ok \/ streams.cancelled
    /\ streams' = IF ok
                  THEN [streams EXCEPT !.consume.sent = Append(@, streams.consume.resp[1]),
                                       !.consume.resp = <<>>,
                                       !.consume.Offset = @ + 1,
                                       !.consume.pc = "select"]
                  ELSE [streams EXCEPT !.consume.pc = "done", !.consume.resp = <<>>,
                                       !.consume.err = ErrCanceled]
    /\ UNCHANGED <<logs, last, appended, threads, raftVars>>
    /\ UNCHANGED <<raftConf, calls, cc, gossip, conns, wait, unitVars>>

\* the client of the running ConsumeStream cancels its context
CancelContext ==
    /\ streams.consume.pc \notin {"idle", "done"}
    /\ ~streams.cancelled
    /\ streams' = [streams EXCEPT !.cancelled = TRUE]
    /\ UNCHANGED <<logs, last, appended, threads, raftVars>>
    /\ UNCHANGED <<raftConf, calls, cc, gossip, conns, wait, unitVars>>

NextStreams ==
    \/ BecomeLeader(Local)
    \/ LoseLeadership
    \/ ProduceStreamCall
    \/ \E record \in InputRecords : ProduceStreamRecv(record)
    \/ ProduceStreamRecvFail
    \/ ProduceStreamProduce
    \/ \E ok \in BOOLEAN : ProduceStreamSend(ok)
    \/ \E off \in StartOffsets : ConsumeStreamCall(off)
    \/ ConsumeStreamSelect
    \/ ConsumeStreamRead
    \/ \E ok \in BOOLEAN : ConsumeStreamSend(ok)
    \/ CancelContext

\* the handler of a running ConsumeStream keeps taking steps
SpecStreams ==
    /\ InitCluster
    /\ [][NextStreams]_vars
    /\ WF_vars(ConsumeStreamSelect)
    /\ WF_vars(ConsumeStreamRead)
    /\ WF_vars(ConsumeStreamSend(TRUE))

----------------------------------------------------------------------------
(* Properties of the streaming RPCs *)

\* C12: ConsumeStream started at offset o sends the records at o, o + 1, ...
\* in order, without gap or duplicate, and an offset that is not yet written
\* neither ends the stream nor fails it: the handler returns only once the
\* client's context is cancelled
C12_ConsumeStreamOrder ==
    /\ \A i \in 1..Len(streams.consume.sent) :
          streams.consume.sent[i].Offset = streams.consume.start + i - 1
    /\ streams.consume.pc # "idle" =>
          streams.consume.Offset = streams.consume.start + Len(streams.consume.sent)
    /\ streams.consume.pc = "done" => streams.cancelled

\* C13: once the context is cancelled ConsumeStream makes at most one more
\* Read/Send iteration and then returns nil
C13_ConsumeStreamCancel ==
    /\ streams.consume.late <= 1
    /\ (streams.consume.pc = "done" /\ streams.cancelled) => streams.consume.err = NoErr

\* C14: on one ProduceStream the i-th response carries the offset the log
\* assigned to the i-th request, the offsets sent are strictly increasing, the
\* log holds the requests' values at those offsets, and a failed append or
\* receive ends the stream with that error before any response to the request
C14_ProduceStreamOrder ==
    /\ Len(streams.produce.sent) <= Len(streams.produce.results)
    /\ \A i \in 1..Len(streams.produce.sent) :
          /\ streams.produce.results[i].fsm = <<streams.produce.sent[i]>>
          /\ \A r \in {LogRead(logs[Local], streams.produce.sent[i])} :
                /\ r.err = NoErr
                /\ r.rec[1].Value = streams.produce.results[i].rec.Value
          /\ i > 1 => streams.produce.sent[i] > streams.produce.sent[i - 1]
    /\ \A i \in 1..Len(streams.produce.results) :
          streams.produce.results[i].cause # NoErr =>
              /\ i = Len(streams.produce.results)
              /\ streams.produce.pc = "done"
              /\ streams.produce.err = streams.produce.results[i].cause
              /\ Len(streams.produce.sent) < i
    /\ streams.produce.pc = "done" => streams.produce.err # NoErr

----------------------------------------------------------------------------
(* The consensus configuration: raft.GetConfiguration, raft.AddVoter and   *)
(* raft.RemoveServer as DistributedLog uses them.                          *)

\* the ids and addresses servers join under
ServerIDs == {NodeID(2), NodeID(3)}

ServerAddrs == {NodeAddr(2), NodeAddr(3)}

ErrConfiguration == Err("ErrConfiguration")

\* raft.Leader(): the address of the leader, "" when none is known
LeaderAddr == IF leader = NoNode THEN "" ELSE NodeAddr(leader)

\* raft refuses a configuration with an empty or repeated id or address, or
\* without a voter
ValidConfiguration(servers) ==
    /\ servers # <<>>
    /\ \A k \in 1..Len(servers) : servers[k].ID # "" /\ servers[k].Address # ""
    /\ \A j \in 1..Len(servers), k \in 1..Len(servers) :
          j # k => (servers[j].ID # servers[k].ID
                    /\ servers[j].Address # servers[k].Address)

\* l.raft.AddVoter(id, addr, 0, 0) on node n, and the future's error:
\* [conf, err]
AddVoter(conf, n, id, addr) ==
    IF leader # n THEN [conf |-> conf, err |-> ErrNotLeader]
    ELSE Let(IF \E k \in 1..Len(conf) : conf[k].ID = id
             THEN [k \in 1..Len(conf) |->
                     IF conf[k].ID = id THEN Server(id, addr) ELSE conf[k]]
             ELSE Append(conf, Server(id, addr)),
             LAMBDA next :
                 IF ValidConfiguration(next) THEN [conf |-> next, err |-> NoErr]
                 ELSE [conf |-> conf, err |-> ErrConfiguration])

\* l.raft.RemoveServer(id, 0, 0) on node n, and the future's error: [conf, err]
RemoveServer(conf, n, id) ==
    IF leader # n THEN [conf |-> conf, err |-> ErrNotLeader]
    ELSE Let(SelectSeq(conf, LAMBDA srv : srv.ID # id), LAMBDA next :
             IF ValidConfiguration(next) THEN [conf |-> next, err |-> NoErr]
             ELSE [conf |-> conf, err |-> ErrConfiguration])

\* the leader after node n's raft call changed the configuration to conf: a
\* leader that is no longer in it steps down
LeaderAfter(conf) ==
    IF leader # NoNode /\ \A k \in 1..Len(conf) : conf[k].ID # NodeID(leader)
    THEN NoNode ELSE leader

\* a server of the configuration wins an election
ElectLeader(n) ==
    /\ leader = NoNode
    /\ \E k \in 1..Len(raftConf) : raftConf[k].ID = NodeID(n)
    /\ leader' = n
    /\ UNCHANGED <<raftConf, calls, cc>>
    /\ UNCHANGED <<logs, last, appended, threads, committed, applied>>
    /\ UNCHANGED <<streams, gossip, conns, wait, unitVars>>

\* the leader steps down
StepDown ==
    /\ leader # NoNode
    /\ leader' = NoNode
    /\ UNCHANGED <<raftConf, calls, cc>>
    /\ UNCHANGED <<logs, last, appended, threads, committed, applied>>
    /\ UNCHANGED <<streams, gossip, conns, wait, unitVars>>

\* Join's mutant: no server counts as already joined
JoinExactNever(srv, id, addr) == FALSE

\* Join: the server of the loop is the one being joined
JoinExact(srv, id, addr) == srv.ID = id /\ srv.Address = addr

\* Join: the server of the loop has the id or the address being joined
JoinConflict(srv, id, addr) == srv.ID = id \/ srv.Address = addr

\* DistributedLog.Join(id, addr) on node n is called: l.raft.GetConfiguration()
JoinCall(n, id, addr) ==
    /\ calls.join.pc \in {"idle", "done"}
    /\ calls' = [calls EXCEPT !.join =
                    [pc |-> "loop", node |-> n, id |-> id, addr |-> addr,
                     conf |-> raftConf, i |-> 1, removes |-> 0, adds |-> 0,
                     err |-> NoErr]]
    /\ UNCHANGED <<raftConf, leader, cc>>
    /\ UNCHANGED <<logs, last, appended, threads, committed, applied>>
    /\ UNCHANGED <<streams, gossip, conns, wait, unitVars>>

\* Join's loop, up to its next return or its next RemoveServer; past the last
\* server it goes on to AddVoter
JoinLoop ==
    /\ calls.join.pc = "loop"
    /\ \E j \in {calls.join} :
       \E hits \in {{k \in j.i..Len(j.conf) : JoinConflict(j.conf[k], j.id, j.addr)}} :
          IF hits = {}
          THEN /\ calls' = [calls EXCEPT !.join.pc = "add"]
               /\ UNCHANGED <<raftConf, leader>>
          ELSE \E k \in {CHOOSE m \in hits : \A o \in hits : m <= o} :
               IF JoinExact(j.conf[k], j.id, j.addr)
               THEN /\ calls' = [calls EXCEPT !.join.pc = "done"]
                    /\ UNCHANGED <<raftConf, leader>>
               ELSE \E r \in {RemoveServer(raftConf, j.node, j.conf[k].ID)} :
                    /\ raftConf' = r.conf
                    /\ leader' = LeaderAfter(r.conf)
                    /\ calls' = [calls EXCEPT
                                    !.join.removes = @ + 1,
                                    !.join.i = k + 1,
                                    !.join.err = r.err,
                                    !.join.pc = IF r.err # NoErr THEN "done" ELSE "loop"]
    /\ UNCHANGED cc
    /\ UNCHANGED <<logs, last, appended, threads, committed, applied>>
    /\ UNCHANGED <<streams, gossip, conns, wait, unitVars>>

\* Join: l.raft.AddVoter(serverID, serverAddr, 0, 0) and the return
JoinAdd ==
    /\ calls.join.pc = "add"
    /\ \E r \in {AddVoter(raftConf, calls.join.node, calls.join.id, calls.join.addr)} :
          /\ raftConf' = r.conf
          /\ calls' = [calls EXCEPT !.join.adds = @ + 1, !.join.err = r.err,
                                    !.join.pc = "done"]
    /\ UNCHANGED <<leader, cc>>
    /\ UNCHANGED <<logs, last, appended, threads, committed, applied>>
    /\ UNCHANGED <<streams, gossip, conns, wait, unitVars>>

\* DistributedLog.Leave(id) on node n
Leave(n, id) ==
    /\ \E r \in {RemoveServer(raftConf, n, id)} :
          /\ r.conf # raftConf
          /\ raftConf' = r.conf
          /\ leader' = LeaderAfter(r.conf)
    /\ UNCHANGED <<calls, cc>>
    /\ UNCHANGED <<logs, last, appended, threads, committed, applied>>
    /\ UNCHANGED <<streams, gossip, conns, wait, unitVars>>

(***************************************************************************)
(* DistributedLog.GetServers, the GetServers RPC and the resolver of the   *)
(* load balancer.                                                          *)
(***************************************************************************)

\* GetServers: l.raft.GetConfiguration() and the empty result
GetServersStart ==
    [pc |-> IF raftConf = <<>> THEN "done" ELSE "loop", conf |-> raftConf,
     servers |-> <<>>, leaders |-> {}, err |-> NoErr]

\* GetServers: the entry the loop builds for srv; l.raft.Leader() is read
\* when the entry is built
ApiServer(srv) ==
    [Id |-> srv.ID, RpcAddr |-> srv.Address, IsLeader |-> (LeaderAddr = srv.Address)]

\* ResolveNow's mutant: the attribute is dropped
ResolverAddressesNoLeader(servers) ==
    [k \in 1..Len(servers) |-> [Addr |-> servers[k].RpcAddr, is_leader |-> FALSE]]

\* ResolveNow: the addresses made of the servers of the response
ResolverAddresses(servers) ==
    [k \in 1..Len(servers) |->
        [Addr |-> servers[k].RpcAddr, is_leader |-> servers[k].IsLeader]]

\* Resolver.Build: the client connection is kept and ResolveNow is called
ResolverBuild ==
    /\ ~cc.built
    /\ calls.get.pc = "idle"
    /\ cc' = [cc EXCEPT !.built = TRUE]
    /\ calls' = [calls EXCEPT !.get = GetServersStart]
    /\ UNCHANGED <<raftConf, leader>>
    /\ UNCHANGED <<logs, last, appended, threads, committed, applied>>
    /\ UNCHANGED <<streams, gossip, conns, wait, unitVars>>

\* Resolver.ResolveNow is called: it sends the GetServers RPC
ResolveNowCall ==
    /\ cc.built
    /\ calls.get.pc = "returned"
    /\ calls' = [calls EXCEPT !.get = GetServersStart]
    /\ UNCHANGED <<raftConf, leader, cc>>
    /\ UNCHANGED <<logs, last, appended, threads, committed, applied>>
    /\ UNCHANGED <<streams, gossip, conns, wait, unitVars>>

\* GetServers: one iteration of the loop over the servers; after the last
\* one the list is returned
GetServersLoop ==
    /\ calls.get.pc = "loop"
    /\ \E g \in {calls.get} :
       \E srv \in {g.conf[Len(g.servers) + 1]} :
          calls' = [calls EXCEPT
                      !.get.servers = Append(@, ApiServer(srv)),
                      !.get.leaders = @ \cup {LeaderAddr},
                      !.get.pc = IF Len(g.servers) + 1 = Len(g.conf)
                                 THEN "done" ELSE "loop"]
    /\ UNCHANGED <<raftConf, leader, cc>>
    /\ UNCHANGED <<logs, last, appended, threads, committed, applied>>
    /\ UNCHANGED <<streams, gossip, conns, wait, unitVars>>

\* the GetServers call fails: the configuration future's error, or the RPC's
GetServersFail ==
    /\ calls.get.pc = "loop"
    /\ calls.get.servers = <<>>
    /\ calls' = [calls EXCEPT !.get.pc = "done", !.get.err = ErrTransport]
    /\ UNCHANGED <<raftConf, leader, cc>>
    /\ UNCHANGED <<logs, last, appended, threads, committed, applied>>
    /\ UNCHANGED <<streams, gossip, conns, wait, unitVars>>

\* ResolveNow after the RPC: a failure is logged, a response becomes the
\* state of the client connection
ResolveNowReturn ==
    /\ calls.get.pc = "done"
    /\ calls' = [calls EXCEPT !.get = [NoCalls.get EXCEPT !.pc = "returned"]]
    /\ cc' = IF calls.get.err # NoErr THEN cc
             ELSE [cc EXCEPT !.Addresses = ResolverAddresses(calls.get.servers)]
    /\ UNCHANGED <<raftConf, leader>>
    /\ UNCHANGED <<logs, last, appended, threads, committed, applied>>
    /\ UNCHANGED <<streams, gossip, conns, wait, unitVars>>

NextJoin ==
    \/ \E n \in Nodes : ElectLeader(n)
    \/ StepDown
    \/ \E n \in Nodes, id \in ServerIDs, addr \in ServerAddrs : JoinCall(n, id, addr)
    \/ JoinLoop
    \/ JoinAdd
    \/ \E n \in Nodes, id \in ServerIDs : Leave(n, id)

SpecJoin == InitCluster /\ [][NextJoin]_vars

\* the servers of the test cluster join the bootstrapped one under their own
\* addresses
NextServers ==
    \/ \E n \in Nodes : ElectLeader(n)
    \/ StepDown
    \/ \E n \in Nodes \ {Local} : JoinCall(Local, NodeID(n), NodeAddr(n))
    \/ JoinLoop
    \/ JoinAdd
    \/ ResolverBuild
    \/ ResolveNowCall
    \/ GetServersLoop
    \/ GetServersFail
    \/ ResolveNowReturn

SpecServers == InitCluster /\ [][NextServers]_vars

\* C15: when ResolveNow (Build's first call included) gets a response, the
\* state of the client connection becomes one address per server of the
\* response, in its order, each with is_leader equal to the server's
\* IsLeader; when the call fails the state stays as it was
C15_ResolverState ==
    [][(calls.get.pc = "done" /\ calls'.get.pc = "returned") =>
         IF calls.get.err = NoErr
         THEN /\ Len(cc'.Addresses) = Len(calls.get.servers)
              /\ \A k \in 1..Len(calls.get.servers) :
                    /\ cc'.Addresses[k].Addr = calls.get.servers[k].RpcAddr
                    /\ cc'.Addresses[k].is_leader = calls.get.servers[k].IsLeader
         ELSE cc' = cc]_vars

\* a second resolution gave the client connection a leader and a follower
C15_Witness ==
    /\ calls.get.pc = "returned"
    /\ Len(cc.Addresses) >= 2
    /\ \E j, k \in 1..Len(cc.Addresses) :
          cc.Addresses[j].is_leader /\ ~cc.Addresses[k].is_leader

\* the entries GetServers returned that are flagged leader
Flagged(servers) == {k \in 1..Len(servers) : servers[k].IsLeader}

\* C19: GetServers returns one entry per server of the configuration with
\* its id and address; the entries flagged leader are those at the leader's
\* address, at most one, and none when no leader is known
C19_GetServers ==
    (calls.get.pc = "done" /\ calls.get.err = NoErr) =>
        \E g \in {calls.get} :
            /\ Len(g.servers) = Len(g.conf)
            /\ \A k \in 1..Len(g.conf) :
                  /\ g.servers[k].Id = g.conf[k].ID
                  /\ g.servers[k].RpcAddr = g.conf[k].Address
            /\ Cardinality(Flagged(g.servers)) <= 1
            /\ \E a \in g.leaders :
                  \A k \in 1..Len(g.conf) :
                      g.servers[k].IsLeader <=> (a # "" /\ g.conf[k].Address = a)

\* C16: a Join(id, addr) that returns success has issued no remove and no
\* add when its configuration already held exactly (id, addr); otherwise
\* the configuration then holds (id, addr) as a voter and no other server
\* with that id or that address
C16_Join ==
    [][(calls.join.pc # "done" /\ calls'.join.pc = "done"
        /\ calls'.join.err = NoErr) =>
         \E j \in {calls'.join} :
            IF \E k \in 1..Len(j.conf) : j.conf[k] = Server(j.id, j.addr)
            THEN j.removes = 0 /\ j.adds = 0 /\ raftConf' = raftConf
            ELSE /\ \E k \in 1..Len(raftConf') :
                       raftConf'[k] = Server(j.id, j.addr)
                 /\ \A k \in 1..Len(raftConf') :
                       (raftConf'[k].ID = j.id \/ raftConf'[k].Address = j.addr)
                           => raftConf'[k] = Server(j.id, j.addr)]_vars

\* a Join replaced two servers, one with its id and one with its address
C16_Witness ==
    /\ calls.join.pc = "done"
    /\ calls.join.err = NoErr
    /\ calls.join.removes = 2
    /\ calls.join.adds = 1
    /\ \E k \in 1..Len(raftConf) : raftConf[k] = Server(calls.join.id, calls.join.addr)

(***************************************************************************)
(* Membership: the bridge from the gossip events to the Handler.           *)
(***************************************************************************)

MaxEvents == 2

MaxMembers == 2

\* the tag a member publishes its RPC address under: the agent that sets
\* Config.Tags is outside the sources, and membership.go reads both keys
TagKeys == {"rpc_addr", "rpc_addrs"}

EventTypes == {"EventMemberJoin", "EventMemberLeave", "EventMemberFailed",
               "EventMemberUpdate"}

\* serf.Member of node n that publishes its address under key; a Go map
\* yields "" for a key it does not hold
Member(n, key) ==
    [Name |-> NodeID(n),
     Tags |-> [k \in TagKeys |-> IF k = key THEN NodeAddr(n) ELSE ""]]

\* the member lists of an event: distinct nodes published by one build
MemberLists ==
    {[k \in 1..Len(ns) |-> Member(ns[k], key)] :
        ns \in {s \in UNION {[1..len -> Nodes] : len \in 1..MaxMembers} :
                    \A j, k \in 1..Len(s) : j # k => s[j] # s[k]},
        key \in TagKeys}

\* Membership.isLocal
isLocal(member) == member.Name = NodeID(Local)

\* handleJoin: the arguments of m.handler.Join
handleJoin(member) ==
    [op |-> "Join", name |-> member.Name, addr |-> member.Tags["rpc_addrs"]]

\* handleLeave: the arguments of m.handler.Leave
handleLeave(member) == [op |-> "Leave", name |-> member.Name, addr |-> ""]

\* serf delivers an event on m.events
SerfEvent(type, members) ==
    /\ Len(gossip.events) < MaxEvents
    /\ gossip' = [gossip EXCEPT
                     !.events = Append(@, [Type |-> type, Members |-> members])]
    /\ UNCHANGED <<logs, last, appended, threads, raftVars>>
    /\ UNCHANGED <<streams, raftConf, calls, cc, conns, wait, unitVars>>

\* eventHandler: one member of the event at the head (an event of another
\* type is dropped); the handler returns err, which is logged
eventHandler(err) ==
    /\ gossip.e <= Len(gossip.events)
    /\ \E ev \in {gossip.events[gossip.e]} :
       \E member \in {ev.Members[gossip.m]} :
       \E call \in {IF ev.Type = "EventMemberUpdate" \/ isLocal(member) THEN <<>>
                     ELSE IF ev.Type = "EventMemberJoin" THEN <<handleJoin(member)>>
                     ELSE <<handleLeave(member)>>} :
          /\ call = <<>> => err = NoErr
          /\ gossip' = [gossip EXCEPT
                !.made = @ \o [k \in 1..Len(call) |->
                                 [op |-> call[k].op, name |-> call[k].name,
                                  addr |-> call[k].addr, err |-> err]],
                !.e = IF ev.Type = "EventMemberUpdate" \/ gossip.m = Len(ev.Members)
                      THEN @ + 1 ELSE @,
                !.m = IF ev.Type = "EventMemberUpdate" \/ gossip.m = Len(ev.Members)
                      THEN 1 ELSE @ + 1]
    /\ UNCHANGED <<logs, last, appended, threads, raftVars>>
    /\ UNCHANGED <<streams, raftConf, calls, cc, conns, wait, unitVars>>

NextMembership ==
    \/ \E type \in EventTypes, members \in MemberLists : SerfEvent(type, members)
    \/ \E err \in {NoErr, ErrNotLeader, ErrConfiguration} : eventHandler(err)

SpecMembership ==
    InitCluster /\ [][NextMembership]_vars
    /\ WF_vars(\E err \in {NoErr, ErrNotLeader, ErrConfiguration} : eventHandler(err))

\* the RPC address a member published
RpcAddr(member) == member.Tags[CHOOSE k \in TagKeys : member.Tags[k] # ""]

\* the calls the first upto members of an event ask for
RECURSIVE EventCalls(_, _)
EventCalls(ev, upto) ==
    IF upto = 0 \/ ev.Type = "EventMemberUpdate" THEN <<>>
    ELSE EventCalls(ev, upto - 1) \o
         (IF ev.Members[upto].Name = NodeID(Local) THEN <<>>
          ELSE IF ev.Type = "EventMemberJoin"
               THEN <<[op |-> "Join", name |-> ev.Members[upto].Name,
                       addr |-> RpcAddr(ev.Members[upto])]>>
               ELSE <<[op |-> "Leave", name |-> ev.Members[upto].Name, addr |-> ""]>>)

\* the calls the events before the e-th and the members before the m-th of
\* the e-th ask for
RECURSIVE ExpectedCalls(_, _, _)
ExpectedCalls(events, e, m) ==
    IF e = 0 THEN <<>>
    ELSE IF e > Len(events) THEN ExpectedCalls(events, e - 1, MaxMembers + 1)
    ELSE ExpectedCalls(events, e - 1, MaxMembers + 1)
         \o EventCalls(events[e], IF m - 1 < Len(events[e].Members)
                                  THEN m - 1 ELSE Len(events[e].Members))

\* C17: the calls the bridge has made are, in event order, one Join(name,
\* rpcAddr) per joined member and one Leave(name) per left or failed member,
\* the local node excepted, whatever the handler returned
C17_Bridge ==
    [k \in 1..Len(gossip.made) |->
        [op |-> gossip.made[k].op, name |-> gossip.made[k].name,
         addr |-> gossip.made[k].addr]]
    = ExpectedCalls(gossip.events, gossip.e, gossip.m)

(***************************************************************************)
(* StreamLayer: the connections of the consensus transport.                *)
(***************************************************************************)

MaxConns == 2

MaxSent == 4

\* the bytes a peer may write
WireBytes == {0, RaftRPC, 2}

\* Accept's mutant: any first byte is taken
AcceptAny(b) == TRUE

\* Accept: bytes.Compare(b, []byte{byte(RaftRPC)}) == 0
AcceptCheck(b) == b = <<RaftRPC>>

\* a connection: sent holds every byte its client wrote, read counts the
\* bytes the accepting side has taken, delivered holds the bytes handed to
\* the consensus layer
Conn(origin, sent, returned) ==
    [origin |-> origin, sent |-> sent, returned |-> returned,
     accept |-> "pending", first |-> <<>>, read |-> 0, delivered |-> <<>>]

\* the bytes written so far, over all connections
RECURSIVE Sent(_)
Sent(cs) == IF cs = <<>> THEN 0 ELSE Len(Head(cs).sent) + Sent(Tail(cs))

\* StreamLayer.Dial: dialer.Dial, then the Write of the discriminator; when
\* the Write fails no connection is returned
Dial(ok) ==
    /\ Len(conns) < MaxConns
    /\ ok => Sent(conns) < MaxSent
    /\ conns' = Append(conns, IF ok THEN Conn("Dial", <<RaftRPC>>, TRUE)
                              ELSE Conn("Dial", <<>>, FALSE))
    /\ UNCHANGED <<logs, last, appended, threads, raftVars>>
    /\ UNCHANGED <<streams, raftConf, calls, cc, gossip, wait, unitVars>>

\* another client connects to the listener and writes its first byte
ForeignConnect(b) ==
    /\ Len(conns) < MaxConns
    /\ Sent(conns) < MaxSent
    /\ conns' = Append(conns, Conn("foreign", <<b>>, TRUE))
    /\ UNCHANGED <<logs, last, appended, threads, raftVars>>
    /\ UNCHANGED <<streams, raftConf, calls, cc, gossip, wait, unitVars>>

\* the holder of a connection writes a byte
ConnWrite(c, b) ==
    /\ c \in 1..Len(conns)
    /\ conns[c].returned
    /\ Sent(conns) < MaxSent
    /\ conns' = [conns EXCEPT ![c].sent = Append(@, b)]
    /\ UNCHANGED <<logs, last, appended, threads, raftVars>>
    /\ UNCHANGED <<streams, raftConf, calls, cc, gossip, wait, unitVars>>

\* StreamLayer.Accept: s.ln.Accept() yields the oldest connection not yet
\* accepted, conn.Read takes one byte (or fails on a connection whose
\* client gave up), and the byte decides
Accept ==
    \E c \in 1..Len(conns) :
        /\ conns[c].accept = "pending"
        /\ \A o \in 1..(c - 1) : conns[o].accept # "pending"
        /\ conns[c].sent # <<>> \/ ~conns[c].returned
        /\ \E b \in {IF conns[c].sent = <<>> THEN <<>> ELSE <<conns[c].sent[1]>>} :
              conns' = [conns EXCEPT
                  ![c].first = b,
                  ![c].read = Len(b),
                  ![c].accept = IF b # <<>> /\ AcceptCheck(b) THEN "conn" ELSE "err"]
    /\ UNCHANGED <<logs, last, appended, threads, raftVars>>
    /\ UNCHANGED <<streams, raftConf, calls, cc, gossip, wait, unitVars>>

\* the consensus layer reads a byte from a connection Accept returned
ConnRead(c) ==
    /\ c \in 1..Len(conns)
    /\ conns[c].accept = "conn"
    /\ conns[c].read < Len(conns[c].sent)
    /\ conns' = [conns EXCEPT ![c].read = @ + 1,
                              ![c].delivered = Append(@, conns[c].sent[conns[c].read + 1])]
    /\ UNCHANGED <<logs, last, appended, threads, raftVars>>
    /\ UNCHANGED <<streams, raftConf, calls, cc, gossip, wait, unitVars>>

NextTransport ==
    \/ \E ok \in BOOLEAN : Dial(ok)
    \/ \E b \in WireBytes : ForeignConnect(b)
    \/ \E c \in 1..MaxConns, b \in WireBytes : ConnWrite(c, b)
    \/ Accept
    \/ \E c \in 1..MaxConns : ConnRead(c)

SpecTransport == InitCluster /\ [][NextTransport]_vars

\* C18: Accept returns a connection exactly when the first byte it read is
\* the discriminator 1 and an error otherwise; a connection Dial returned
\* carries 1 as its first byte, is never refused, and what the consensus
\* layer reads from an accepted connection is what was written after the
\* first byte
C18_StreamLayer ==
    \A c \in 1..Len(conns) :
        /\ conns[c].accept = "conn" => conns[c].first = <<RaftRPC>>
        /\ conns[c].accept = "err" => conns[c].first # <<RaftRPC>>
        /\ (conns[c].origin = "Dial" /\ conns[c].returned) =>
              /\ conns[c].sent[1] = RaftRPC
              /\ conns[c].accept # "err"
        /\ conns[c].accept = "conn" =>
              conns[c].delivered = SubSeq(conns[c].sent, 2, conns[c].read)

\* a dialled connection was accepted and gave the consensus layer two bytes,
\* and a connection with another first byte was refused
C18_Witness ==
    \E c, d \in 1..Len(conns) :
        /\ conns[c].origin = "Dial"
        /\ conns[c].accept = "conn"
        /\ Len(conns[c].delivered) = 2
        /\ conns[d].accept = "err"
        /\ conns[d].first # <<>>

(***************************************************************************)
(* DistributedLog.WaitForLeader.  Time is counted in units of 50 ms; the   *)
(* two channels hold what the runtime has delivered and the loop has not   *)
(* yet received.                                                           *)
(***************************************************************************)

\* the ticker's period, 100 ms
TickPeriod == 2

\* the time the clock of a wait runs to
MaxTime == 6

\* the timeouts of the calls
Timeouts == 0..(MaxTime - 1)

ErrTimedOut == Err("timed out waiting for raft leader")

\* WaitForLeader's mutant: the poll takes any answer for a leader
PollAny(addr) == TRUE

\* WaitForLeader: l.raft.Leader() != ""
Poll(addr) == addr # ""

\* WaitForLeader(timeout): time.After and time.NewTicker
WaitForLeaderCall(timeout) ==
    /\ wait.pc = "idle"
    /\ wait' = [wait EXCEPT !.pc = "select", !.timeout = timeout,
                            !.timeoutCh = (timeout = 0)]
    /\ UNCHANGED leader
    /\ UNCHANGED <<logs, last, appended, threads, committed, applied>>
    /\ UNCHANGED <<streams, raftConf, calls, cc, gossip, conns, unitVars>>

\* 50 ms pass: the timer fires once its time has come, the ticker at each
\* period (a tick is dropped while the last one is not received)
Advance ==
    /\ wait.pc = "select"
    /\ wait.now < MaxTime
    /\ wait' = [wait EXCEPT
                  !.now = @ + 1,
                  !.timeoutCh = @ \/ wait.now + 1 = wait.timeout,
                  !.tickerC = @ \/ (wait.now + 1) % TickPeriod = 0]
    /\ UNCHANGED leader
    /\ UNCHANGED <<logs, last, appended, threads, committed, applied>>
    /\ UNCHANGED <<streams, raftConf, calls, cc, gossip, conns, unitVars>>

\* the select receives from timeoutCh
SelectTimeout ==
    /\ wait.pc = "select"
    /\ wait.timeoutCh
    /\ wait' = [wait EXCEPT !.pc = "done", !.timeoutCh = FALSE, !.err = ErrTimedOut]
    /\ UNCHANGED leader
    /\ UNCHANGED <<logs, last, appended, threads, committed, applied>>
    /\ UNCHANGED <<streams, raftConf, calls, cc, gossip, conns, unitVars>>

\* the select receives from ticker.C and polls the leader address
SelectTicker ==
    /\ wait.pc = "select"
    /\ wait.tickerC
    /\ wait' = [wait EXCEPT
                  !.tickerC = FALSE,
                  !.polls = @ + 1,
                  !.observed = (leader # NoNode),
                  !.pc = IF Poll(LeaderAddr) THEN "done" ELSE @]
    /\ UNCHANGED leader
    /\ UNCHANGED <<logs, last, appended, threads, committed, applied>>
    /\ UNCHANGED <<streams, raftConf, calls, cc, gossip, conns, unitVars>>

\* the leader changes while a caller waits
WaitElect ==
    /\ leader = NoNode
    /\ leader' = Local
    /\ UNCHANGED wait
    /\ UNCHANGED <<logs, last, appended, threads, committed, applied>>
    /\ UNCHANGED <<streams, raftConf, calls, cc, gossip, conns, unitVars>>

WaitStepDown ==
    /\ leader # NoNode
    /\ leader' = NoNode
    /\ UNCHANGED wait
    /\ UNCHANGED <<logs, last, appended, threads, committed, applied>>
    /\ UNCHANGED <<streams, raftConf, calls, cc, gossip, conns, unitVars>>

NextWait ==
    \/ \E timeout \in Timeouts : WaitForLeaderCall(timeout)
    \/ Advance
    \/ SelectTimeout
    \/ SelectTicker
    \/ WaitElect
    \/ WaitStepDown

\* time passes, and a select whose timeout channel is ready takes it in the
\* end: Go's select picks among the ready cases at random
SpecWait ==
    InitCluster /\ [][NextWait]_vars /\ WF_vars(Advance) /\ WF_vars(SelectTimeout)

MaxFrames == 3

\* the payloads appended
Payloads == {<<>>, <<7>>, <<8, 9>>}

StoreCall(op, arg, s, n, pos, data, err) ==
    [op |-> op, arg |-> arg, size |-> s.size, flen |-> Len(s.file), n |-> n,
     pos |-> pos, data |-> data, err |-> err]

\* s.Append(p)
DoStoreAppend(p) ==
    /\ Len(st.written) < MaxFrames
    /\ \E a \in {StoreAppend(st.store, p)} :
          st' = [st EXCEPT
                   !.store = a.store,
                   !.written = IF a.err # NoErr THEN @
                               ELSE Append(@, [pos |-> a.pos, n |-> a.n, p |-> p]),
                   !.clean = FALSE,
                   !.last = StoreCall("Append", Len(p), st.store, a.n, a.pos, <<>>, a.err)]
    /\ UNCHANGED <<logs, last, appended, threads, raftVars>>
    /\ UNCHANGED <<streams, raftConf, calls, cc, gossip, conns, wait>>
    /\ UNCHANGED <<ix, rs, dl, rlog, repl, builds>>

\* s.Read(pos), pos the position an Append returned
DoStoreRead(k) ==
    /\ k \in 1..Len(st.written)
    /\ \E r \in {StoreRead(st.store, st.written[k].pos)} :
          st' = [st EXCEPT
                   !.store = r.store,
                   !.last = StoreCall("Read", k, st.store, 0, st.written[k].pos,
                                      r.data, r.err)]
    /\ UNCHANGED <<logs, last, appended, threads, raftVars>>
    /\ UNCHANGED <<streams, raftConf, calls, cc, gossip, conns, wait>>
    /\ UNCHANGED <<ix, rs, dl, rlog, repl, builds>>

\* s.ReadAt(b, off) over the frame an Append wrote
DoStoreReadAt(k) ==
    /\ k \in 1..Len(st.written)
    /\ \E r \in {StoreReadAt(st.store, st.written[k].n, st.written[k].pos)} :
          st' = [st EXCEPT
                   !.last = StoreCall("ReadAt", k, st.store, Len(r.data),
                                      st.written[k].pos, r.data, r.err)]
    /\ UNCHANGED <<logs, last, appended, threads, raftVars>>
    /\ UNCHANGED <<streams, raftConf, calls, cc, gossip, conns, wait>>
    /\ UNCHANGED <<ix, rs, dl, rlog, repl, builds>>

\* s.Close()
DoStoreClose ==
    /\ \E c \in {StoreClose(st.store)} :
          st' = [st EXCEPT
                   !.store = c.store,
                   !.clean = (c.err = NoErr),
                   !.last = StoreCall("Close", 0, st.store, Len(st.store.buf), 0,
                                      <<>>, c.err)]
    /\ UNCHANGED <<logs, last, appended, threads, raftVars>>
    /\ UNCHANGED <<streams, raftConf, calls, cc, gossip, conns, wait>>
    /\ UNCHANGED <<ix, rs, dl, rlog, repl, builds>>

\* newStore on the file: the frames that never reached the file are lost
DoStoreOpen ==
    /\ st.last.op # "newStore"
    /\ \E f \in {st.store.file} :
       \E kept \in {SelectSeq(st.written, LAMBDA w : w.pos + w.n <= Len(f))} :
          st' = [st EXCEPT
                   !.store = newStore(f),
                   !.written = kept,
                   !.s0 = Len(f),
                   !.since = Len(kept),
                   !.clean = FALSE,
                   !.opened = IF st.clean THEN "closed" ELSE "open",
                   !.last = StoreCall("newStore", 0, st.store, 0, 0, <<>>, NoErr)]
    /\ UNCHANGED <<logs, last, appended, threads, raftVars>>
    /\ UNCHANGED <<streams, raftConf, calls, cc, gossip, conns, wait>>
    /\ UNCHANGED <<ix, rs, dl, rlog, repl, builds>>

NextStore ==
    \/ \E p \in Payloads : DoStoreAppend(p)
    \/ \E k \in 1..MaxFrames : DoStoreRead(k)
    \/ \E k \in 1..MaxFrames : DoStoreReadAt(k)
    \/ DoStoreClose
    \/ DoStoreOpen

SpecStore == InitCluster /\ [][NextStore]_vars

\* C23: on a closed store every Append, Read and ReadAt returns an error,
\* and an Append that fails leaves the size as it found it
C23_StoreClosed ==
    /\ (st.store.closed /\ st.last.op \in {"Append", "Read", "ReadAt"}) =>
          st.last.err # NoErr
    /\ (st.last.op = "Append" /\ st.last.err # NoErr) =>
          st.store.size = st.last.size

\* C24: on an open store, a Read of the position an Append returned yields
\* the payload of that append, and a ReadAt over the frame yields its length
\* header and its payload, flushed or not
C24_ReadsSeeAppends ==
    ~st.store.closed =>
        \E w \in {IF st.last.op \in {"Read", "ReadAt"}
                   THEN st.written[st.last.arg] ELSE [pos |-> 0, n |-> 0, p |-> <<>>]} :
            /\ st.last.op = "Read" => (st.last.err = NoErr /\ st.last.data = w.p)
            /\ st.last.op = "ReadAt" =>
                  /\ st.last.err = NoErr
                  /\ st.last.data = PutUint(Len(w.p), lenWidth) \o w.p

\* the lengths of the frames appended since the store was opened, before
\* the i-th frame of the file
RECURSIVE FramesBefore(_, _, _)
FramesBefore(written, since, i) ==
    IF i <= since + 1 THEN 0
    ELSE written[i - 1].n + FramesBefore(written, since, i - 1)

\* C25: the i-th Append on a store opened at size s0 returned the length of
\* its frame, 8 + len(p), and the position s0 + the frames before it; the
\* size is s0 + all the frames; Read of the position returns the payload
C25_AppendPositions ==
    /\ \A i \in (st.since + 1)..Len(st.written) :
          /\ st.written[i].n = lenWidth + Len(st.written[i].p)
          /\ st.written[i].pos = st.s0 + FramesBefore(st.written, st.since, i)
          /\ ~st.store.closed =>
                \E r \in {StoreRead(st.store, st.written[i].pos)} :
                    r.err = NoErr /\ r.data = st.written[i].p
    /\ st.store.size = st.s0 + FramesBefore(st.written, st.since, Len(st.written) + 1)
    /\ (st.last.op = "Read" /\ ~st.store.closed /\ st.last.arg > st.since) =>
          (st.last.err = NoErr /\ st.last.data = st.written[st.last.arg].p)

\* a store opened on a file that held a frame has appended two more and
\* read the second
C25_Witness ==
    /\ st.s0 > 0
    /\ Len(st.written) = st.since + 2
    /\ st.last.op = "Read"
    /\ st.last.arg = Len(st.written)
    /\ st.last.err = NoErr

\* C26: a Close that succeeds leaves the file as long as the store's size,
\* longer than before when frames were buffered; a store opened on that
\* file starts at that size and reads every payload appended before
C26_CloseFlushes ==
    /\ (st.last.op = "Close" /\ st.last.err = NoErr) =>
          /\ Len(st.store.file) = st.store.size
          /\ st.last.n > 0 => Len(st.store.file) > st.last.flen
    /\ (st.last.op = "newStore" /\ st.opened = "closed") =>
          /\ st.store.size = st.last.size
          /\ st.store.size = Len(st.store.file)
    /\ (st.opened = "closed" /\ ~st.store.closed) =>
          \A k \in 1..st.since :
              \E r \in {StoreRead(st.store, st.written[k].pos)} :
                  r.err = NoErr /\ r.data = st.written[k].p

\* a store opened on the file of a store closed with buffered frames holds
\* two frames
C26_Witness ==
    /\ st.last.op = "newStore"
    /\ st.opened = "closed"
    /\ st.since = 2
    /\ st.store.size = st.written[2].pos + st.written[2].n

(***************************************************************************)
(* The index on its own: newIndex, Write, Read, Close and newIndex on the  *)
(* file a Close left, with the same configuration.                         *)
(***************************************************************************)

\* Segment.MaxIndexBytes: one entry and a half, two entries, three entries
IndexSizes == {18, 24, 36}

\* the times the file of the index is opened
MaxOpens == 2

\* the relative offsets and the store positions written
EntryOffs == {0, 1, 258}

EntryPositions == {0, 300}

\* the entries Read is asked for: -1 is the last one
ReadIns == -1..4

IndexCall(op, arg, idx, out, pos, err) ==
    [op |-> op, arg |-> arg, size |-> idx.size, out |-> out, pos |-> pos, err |-> err]

\* newIndex on a new file
DoIndexNew(maxIndex) ==
    /\ ix.pc = "idle"
    /\ \E c \in {Config(0, maxIndex, 0)} :
          ix' = [ix EXCEPT !.pc = "open", !.c = c, !.index = newIndex(<<>>, c),
                           !.opens = 1,
                           !.last = IndexCall("newIndex", 0, ix.index, 0, 0, NoErr)]
    /\ UNCHANGED <<logs, last, appended, threads, raftVars>>
    /\ UNCHANGED <<streams, raftConf, calls, cc, gossip, conns, wait>>
    /\ UNCHANGED <<st, rs, dl, rlog, repl, builds>>

\* i.Write(off, pos)
DoIndexWrite(off, pos) ==
    /\ ix.pc = "open"
    /\ \E w \in {IndexWrite(ix.index, off, pos)} :
          ix' = [ix EXCEPT
                   !.index = w.index,
                   !.entries = IF w.err # NoErr THEN @
                               ELSE Append(@, [off |-> off, pos |-> pos]),
                   !.last = IndexCall("Write", off, ix.index, 0, pos, w.err)]
    /\ UNCHANGED <<logs, last, appended, threads, raftVars>>
    /\ UNCHANGED <<streams, raftConf, calls, cc, gossip, conns, wait>>
    /\ UNCHANGED <<st, rs, dl, rlog, repl, builds>>

\* i.Read(in)
DoIndexRead(in) ==
    /\ ix.pc = "open"
    /\ \E r \in {IndexRead(ix.index, in)} :
          ix' = [ix EXCEPT !.last = IndexCall("Read", in, ix.index, r.out, r.pos, r.err)]
    /\ UNCHANGED <<logs, last, appended, threads, raftVars>>
    /\ UNCHANGED <<streams, raftConf, calls, cc, gossip, conns, wait>>
    /\ UNCHANGED <<st, rs, dl, rlog, repl, builds>>

\* i.Close()
DoIndexClose ==
    /\ ix.pc = "open"
    /\ ix' = [ix EXCEPT !.pc = "closed", !.index = IndexClose(ix.index),
                        !.last = IndexCall("Close", 0, ix.index, 0, 0, NoErr)]
    /\ UNCHANGED <<logs, last, appended, threads, raftVars>>
    /\ UNCHANGED <<streams, raftConf, calls, cc, gossip, conns, wait>>
    /\ UNCHANGED <<st, rs, dl, rlog, repl, builds>>

\* newIndex on the file of the closed index
DoIndexOpen ==
    /\ ix.pc = "closed"
    /\ ix.opens < MaxOpens
    /\ ix' = [ix EXCEPT !.pc = "open", !.index = newIndex(ix.index.file, ix.c),
                        !.opens = @ + 1,
                        !.last = IndexCall("newIndex", 0, ix.index, 0, 0, NoErr)]
    /\ UNCHANGED <<logs, last, appended, threads, raftVars>>
    /\ UNCHANGED <<streams, raftConf, calls, cc, gossip, conns, wait>>
    /\ UNCHANGED <<st, rs, dl, rlog, repl, builds>>

NextIndex ==
    \/ \E maxIndex \in IndexSizes : DoIndexNew(maxIndex)
    \/ \E off \in EntryOffs, pos \in EntryPositions : DoIndexWrite(off, pos)
    \/ \E in \in ReadIns : DoIndexRead(in)
    \/ DoIndexClose
    \/ DoIndexOpen

SpecIndex == InitCluster /\ [][NextIndex]_vars

\* C27: after k >= 1 writes Read(j) returns the j-th entry for 0 <= j < k,
\* Read(-1) the last one and Read(j) end-of-data for j >= k; on an empty
\* index Read returns (0, 0) and no error
C27_IndexRead ==
    ix.pc = "open" =>
        \E k \in {Len(ix.entries)} :
        \A in \in ReadIns :
            \E r \in {IndexRead(ix.index, in)} :
                /\ k = 0 => r = [out |-> 0, pos |-> 0, err |-> NoErr]
                /\ (k >= 1 /\ 0 <= in /\ in < k) =>
                      r = [out |-> ix.entries[in + 1].off,
                           pos |-> ix.entries[in + 1].pos, err |-> NoErr]
                /\ (k >= 1 /\ in = -1) =>
                      r = [out |-> ix.entries[k].off, pos |-> ix.entries[k].pos,
                           err |-> NoErr]
                /\ (k >= 1 /\ in >= k) => r.err = EOF
                /\ (ix.last.op = "Read" /\ ix.last.arg = in) =>
                      (ix.last.out = r.out /\ ix.last.pos = r.pos /\ ix.last.err = r.err)

\* three entries were written and the last Read asked for the last one
C27_Witness ==
    /\ ix.pc = "open"
    /\ Len(ix.entries) = 3
    /\ ix.last.op = "Read"
    /\ ix.last.arg = -1
    /\ ix.last.out = 258
    /\ ix.last.pos = 300

\* C28: Write returns end-of-data exactly when size + 12 is more than the
\* mapping holds, and then changes nothing; size is always a multiple of 12
\* within the mapping, which is MaxIndexBytes long
C28_IndexWrite ==
    /\ [](ix.pc = "open" =>
            /\ ix.index.size % 12 = 0
            /\ ix.index.size <= Len(ix.index.file)
            /\ Len(ix.index.file) = ix.c.MaxIndexBytes)
    /\ [][(ix.pc = "open" /\ ix'.last.op = "Write" /\ ix' # ix) =>
            /\ (ix'.last.err = EOF) <=> (ix.index.size + 12 > Len(ix.index.file))
            /\ ix'.last.err \in {EOF, NoErr}
            /\ ix'.last.err = EOF => (ix'.index = ix.index /\ ix'.entries = ix.entries)
            /\ ix'.last.err = NoErr => ix'.index.size = ix.index.size + 12]_vars

\* a Write was refused on a mapping with six bytes to spare
C28_Witness ==
    /\ ix.pc = "open"
    /\ ix.last.op = "Write"
    /\ ix.last.err = EOF
    /\ ix.index.size = 12
    /\ Len(ix.index.file) = 18

\* C29: a closed index leaves a file of 12 bytes per entry written; the
\* index opened on it with the same configuration has that size and reads
\* the same entries
C29_IndexReopen ==
    /\ ix.pc = "closed" => Len(ix.index.file) = 12 * Len(ix.entries)
    /\ (ix.pc = "open" /\ ix.last.op = "newIndex") =>
          /\ ix.index.size = 12 * Len(ix.entries)
          /\ \A j \in 1..Len(ix.entries) :
                \E r \in {IndexRead(ix.index, j - 1)} :
                    r = [out |-> ix.entries[j].off, pos |-> ix.entries[j].pos,
                         err |-> NoErr]

\* an index with room for three entries was closed after two and opened again
C29_Witness ==
    /\ ix.pc = "open"
    /\ ix.last.op = "newIndex"
    /\ ix.opens = 2
    /\ Len(ix.entries) = 2
    /\ ix.c.MaxIndexBytes = 36

(***************************************************************************)
(* The Resolver's mutex: Build, ResolveNow and Close called by goroutines  *)
(* on the one Resolver that is registered as builder.                      *)
(***************************************************************************)

\* what goroutine g gives the fields it sets in Build
ConnOf(g) == <<"cc1", "cc2">>[g]

\* the accesses of r made so far without r.mu, with one more by g
Access(r, g, field, kind) ==
    IF r.mu = g THEN r.unguarded
    ELSE r.unguarded \cup {[op |-> r.op[g], field |-> field, kind |-> kind]}

\* a goroutine calls Build, ResolveNow or Close; the last two are called on
\* a Resolver a Build has returned
ResolverCall(g, op) ==
    /\ rs.pc[g] = "idle"
    /\ op \in {"ResolveNow", "Close"} => rs.resolverConn # ""
    /\ rs' = [rs EXCEPT !.op[g] = op,
                        !.pc[g] = IF op = "Build" THEN "clientConn" ELSE "Lock"]
    /\ UNCHANGED <<logs, last, appended, threads, raftVars>>
    /\ UNCHANGED <<streams, raftConf, calls, cc, gossip, conns, wait>>
    /\ UNCHANGED <<st, ix, dl, rlog, repl, builds>>

\* Build: r.clientConn = cc
BuildClientConn(g) ==
    /\ rs.pc[g] = "clientConn"
    /\ rs' = [rs EXCEPT !.clientConn = ConnOf(g),
                        !.unguarded = Access(rs, g, "clientConn", "write"),
                        !.pc[g] = "serverConfig"]
    /\ UNCHANGED <<logs, last, appended, threads, raftVars>>
    /\ UNCHANGED <<streams, raftConf, calls, cc, gossip, conns, wait>>
    /\ UNCHANGED <<st, ix, dl, rlog, repl, builds>>

\* Build: r.serverConfig = r.clientConn.ParseServiceConfig(...)
BuildServiceConfig(g) ==
    /\ rs.pc[g] = "serverConfig"
    /\ rs' = [rs EXCEPT
                 !.serverConfig = rs.clientConn,
                 !.unguarded = Access(rs, g, "clientConn", "read")
                                 \cup Access(rs, g, "serverConfig", "write"),
                 !.pc[g] = "Dial"]
    /\ UNCHANGED <<logs, last, appended, threads, raftVars>>
    /\ UNCHANGED <<streams, raftConf, calls, cc, gossip, conns, wait>>
    /\ UNCHANGED <<st, ix, dl, rlog, repl, builds>>

\* Build: r.resolverConn, err = grpc.Dial(...); an error ends the call,
\* otherwise ResolveNow is called
BuildDial(g, ok) ==
    /\ rs.pc[g] = "Dial"
    /\ rs' = [rs EXCEPT
                 !.resolverConn = IF ok THEN ConnOf(g) ELSE "",
                 !.unguarded = Access(rs, g, "resolverConn", "write"),
                 !.pc[g] = IF ok THEN "Lock" ELSE "idle"]
    /\ UNCHANGED <<logs, last, appended, threads, raftVars>>
    /\ UNCHANGED <<streams, raftConf, calls, cc, gossip, conns, wait>>
    /\ UNCHANGED <<st, ix, dl, rlog, repl, builds>>

\* ResolveNow and Close: r.mu.Lock()
ResolverLock(g) ==
    /\ rs.pc[g] = "Lock"
    /\ rs.mu = 0
    /\ rs' = [rs EXCEPT !.mu = g, !.pc[g] = "locked"]
    /\ UNCHANGED <<logs, last, appended, threads, raftVars>>
    /\ UNCHANGED <<streams, raftConf, calls, cc, gossip, conns, wait>>
    /\ UNCHANGED <<st, ix, dl, rlog, repl, builds>>

\* ResolveNow from api.NewLogClient(r.resolverConn) to the deferred Unlock:
\* when GetServers succeeds the state goes to r.clientConn with
\* r.serverConfig
ResolveNowBody(g, ok) ==
    /\ rs.pc[g] = "locked"
    /\ rs.op[g] \in {"Build", "ResolveNow"}
    /\ rs' = [rs EXCEPT
                 !.unguarded = Access(rs, g, "resolverConn", "read")
                     \cup (IF ok THEN Access(rs, g, "clientConn", "read")
                                       \cup Access(rs, g, "serverConfig", "read")
                           ELSE {}),
                 !.mu = 0,
                 !.pc[g] = "idle"]
    /\ UNCHANGED <<logs, last, appended, threads, raftVars>>
    /\ UNCHANGED <<streams, raftConf, calls, cc, gossip, conns, wait>>
    /\ UNCHANGED <<st, ix, dl, rlog, repl, builds>>

\* Close from r.resolverConn.Close() to the deferred Unlock
ResolverCloseBody(g) ==
    /\ rs.pc[g] = "locked"
    /\ rs.op[g] = "Close"
    /\ rs' = [rs EXCEPT !.unguarded = Access(rs, g, "resolverConn", "read"),
                        !.mu = 0,
                        !.pc[g] = "idle"]
    /\ UNCHANGED <<logs, last, appended, threads, raftVars>>
    /\ UNCHANGED <<streams, raftConf, calls, cc, gossip, conns, wait>>
    /\ UNCHANGED <<st, ix, dl, rlog, repl, builds>>

NextResolver ==
    \/ \E g \in Threads, op \in {"Build", "ResolveNow", "Close"} : ResolverCall(g, op)
    \/ \E g \in Threads : BuildClientConn(g)
    \/ \E g \in Threads : BuildServiceConfig(g)
    \/ \E g \in Threads, ok \in BOOLEAN : BuildDial(g, ok)
    \/ \E g \in Threads : ResolverLock(g)
    \/ \E g \in Threads, ok \in BOOLEAN : ResolveNowBody(g, ok)
    \/ \E g \in Threads : ResolverCloseBody(g)

SpecResolver == InitCluster /\ [][NextResolver]_vars

\* C21: every read and every write of the client connection, of the
\* bootstrap connection and of the service config is made by a goroutine
\* that holds the resolver's mutex
C21_MutexHeld == rs.unguarded = {}

(***************************************************************************)
(* DistributedLog.Close on Local, while the consensus layer hands its FSM  *)
(* the commands the leader commits.                                        *)
(***************************************************************************)

ErrShutdown == Err("raft shutdown failed")

\* Close that closes the Log before it shuts the consensus layer down
DistributedLogCloseLogFirst(step) ==
    IF step = 1 THEN "log.Close" ELSE "raft.Shutdown"

\* DistributedLog.Close: its first and its second statement
DistributedLogClose(step) ==
    IF step = 1 THEN "raft.Shutdown" ELSE "log.Close"

\* the consensus layer of Local, while it runs, hands the FSM the next
\* committed command
RaftApply ==
    /\ dl.raft = "running"
    /\ applied[Local] < Len(committed)
    /\ \E resp \in {fsmApply(logs[Local], committed[applied[Local] + 1])} :
          logs' = [logs EXCEPT ![Local] = resp.log]
    /\ applied' = [applied EXCEPT ![Local] = @ + 1]
    /\ dl' = [dl EXCEPT !.late = @ \/ dl.logClosed]
    /\ UNCHANGED <<last, appended, threads, leader, committed>>
    /\ UNCHANGED <<streams, raftConf, calls, cc, gossip, conns, wait>>
    /\ UNCHANGED <<st, ix, rs, rlog, repl, builds>>

\* Close: l.raft.Shutdown() and the future's error; a failure is returned.
\* The goroutines of the consensus layer are stopped before the future is
\* done, except perhaps when it fails
CloseShutdown(ok, stopped) ==
    /\ dl.step \in {1, 2}
    /\ DistributedLogClose(dl.step) = "raft.Shutdown"
    /\ ok => stopped
    /\ dl' = [dl EXCEPT
                 !.raft = IF stopped THEN "stopped" ELSE @,
                 !.failed = ~ok,
                 !.err = IF ok THEN @ ELSE ErrShutdown,
                 !.step = IF ok /\ dl.step = 1 THEN 2 ELSE 0]
    /\ UNCHANGED <<logs, last, appended, threads, raftVars>>
    /\ UNCHANGED <<streams, raftConf, calls, cc, gossip, conns, wait>>
    /\ UNCHANGED <<st, ix, rs, rlog, repl, builds>>

\* Close: l.log.Close()
CloseLog ==
    /\ dl.step \in {1, 2}
    /\ DistributedLogClose(dl.step) = "log.Close"
    /\ logs' = [logs EXCEPT ![Local] = LogClose(logs[Local])]
    /\ dl' = [dl EXCEPT !.logClosed = TRUE,
                        !.step = IF dl.step = 1 THEN 2 ELSE 0]
    /\ UNCHANGED <<last, appended, threads, raftVars>>
    /\ UNCHANGED <<streams, raftConf, calls, cc, gossip, conns, wait>>
    /\ UNCHANGED <<st, ix, rs, rlog, repl, builds>>

NextClose ==
    \/ BecomeLeader(Target)
    \/ LoseLeadership
    \/ AppendOnLeader(Target)
    \/ AppendLeadershipLost(Target)
    \/ RaftApply
    \/ \E ok \in BOOLEAN, stopped \in BOOLEAN : CloseShutdown(ok, stopped)
    \/ CloseLog

SpecClose == InitCluster /\ [][NextClose]_vars

\* C22: Close shuts the consensus layer down before it closes the Log: the
\* Log is closed only once the consensus layer has stopped, no FSM Apply
\* reaches a closed Log, and a failed shutdown is what Close returns, the
\* Log left open
C22_CloseOrder ==
    /\ dl.logClosed => dl.raft = "stopped"
    /\ ~dl.late
    /\ dl.failed => (dl.step = 0 /\ dl.err = ErrShutdown /\ ~dl.logClosed)
    /\ (dl.step = 0 /\ ~dl.failed) => (dl.logClosed /\ dl.err = NoErr)

\* Close returned without error on a node that had applied a command and
\* had another committed command waiting
C22_Witness ==
    /\ dl.step = 0
    /\ dl.logClosed
    /\ applied[Local] = 1
    /\ Len(committed) = 2

(***************************************************************************)
(* Segment rollover: Log.Append with records whose frames are 19 bytes     *)
(* long, next to the shorter records of the other specifications.          *)
(***************************************************************************)

\* a value of n bytes
Value(n) == [k \in 1..n |-> 100 + k]

\* records whose frame is 19 bytes at offset 0 (9 bytes of value) and at the
\* offsets after it (7 bytes of value, the offset field taking two)
RolloverRecords ==
    {Record(Value(9), 0, 0, 0), Record(Value(7), 0, 0, 0)}

NextRollover ==
    \/ \E record \in InputRecords \cup RolloverRecords : DoAppend(Local, record)
    \/ \E off \in ReadOffsets : DoConsume(Local, off)
    \/ \E lowest \in Offsets : DoTruncate(Local, lowest)
    \/ DoReset(Local)
    \/ DoReopen(Local)

SpecRollover == InitCluster /\ [][NextRollover]_vars

\* every frame of bs is n bytes long
RECURSIVE FramesAre(_, _, _)
FramesAre(bs, pos, n) ==
    IF pos = Len(bs) THEN TRUE
    ELSE /\ Len(bs) - pos >= n
         /\ Uint(SubSeq(bs, pos + 1, pos + lenWidth)) = n - lenWidth
         /\ FramesAre(bs, pos + n, n)

\* the Log holds three records, all in frames of 19 bytes, under
\* MaxStoreBytes = 32
ThreeFrames(l) ==
    /\ l.Config.MaxStoreBytes = 32
    /\ l.segments # <<>>
    /\ l.segments[1].baseOffset = 0
    /\ ActiveSegment(l).nextOffset = 3
    /\ \A k \in 1..Len(l.segments) :
          FramesAre(l.segments[k].store.file \o l.segments[k].store.buf, 0, 19)

\* a segment is full under configuration c
Full(s, c) == s.store.size >= c.MaxStoreBytes \/ s.index.size >= c.MaxIndexBytes

\* C30: an Append that succeeds goes to an active segment that was not
\* full, and makes a new active segment, based at the old one's nextOffset,
\* exactly when the old one is full afterwards; an Append that fails makes
\* none.  Three frames of 19 bytes under MaxStoreBytes = 32 are held by two
\* segments based at 0 and 2, with LowestOffset 0, HighestOffset 2 and the
\* three offsets readable
C30_Rollover ==
    /\ [][(last'.op = "Append" /\ last' # last) =>
            \E segs \in {logs[Local].segments} :
            \E after \in {logs'[Local].segments} :
            \E k \in {Len(segs)} :
                IF last'.err # NoErr THEN Len(after) = k
                ELSE /\ ~Full(segs[k], logs[Local].Config)
                     /\ after[k].nextOffset = segs[k].nextOffset + 1
                     /\ last'.off = segs[k].nextOffset
                     /\ Len(after) = IF Full(after[k], logs[Local].Config)
                                     THEN k + 1 ELSE k
                     /\ Len(after) = k + 1 =>
                           /\ after[k + 1].baseOffset = after[k].nextOffset
                           /\ after[k + 1].nextOffset = after[k].nextOffset]_vars
    /\ [](ThreeFrames(logs[Local]) =>
            \E l \in {logs[Local]} :
                /\ Len(l.segments) = 2
                /\ l.segments[1].baseOffset = 0
                /\ l.segments[2].baseOffset = 2
                /\ LowestOffset(l) = [off |-> 0, err |-> NoErr]
                /\ HighestOffset(l) = [off |-> 2, err |-> NoErr]
                /\ \A off \in 0..2 :
                      \E r \in {LogRead(l, off)} :
                          /\ r.err = NoErr
                          /\ r.rec[1].Offset = off
                          /\ r.rec[1].Value \in {Value(9), Value(7)})

\* three records in frames of 19 bytes have been appended, the last one by
\* the last call
C30_Witness ==
    /\ ThreeFrames(logs[Local])
    /\ last.op = "Append"
    /\ last.err = NoErr
    /\ last.off = 2

----------------------------------------------------------------------------
(***************************************************************************)
(* The segment sequence of a Log.                                          *)
(***************************************************************************)

\* the segments are sorted by base offset and each one starts where the one
\* before it ends
Contiguous(l) ==
    \A k \in 2..Len(l.segments) :
        /\ l.segments[k - 1].baseOffset <= l.segments[k].baseOffset
        /\ l.segments[k].baseOffset = l.segments[k - 1].nextOffset

\* C31: the Log's segment sequence is never empty, it is sorted by base
\* offset and contiguous, and so has a last segment to be the active one
C31_Segments ==
    /\ logs[Local].segments # <<>>
    /\ Contiguous(logs[Local])

----------------------------------------------------------------------------
(***************************************************************************)
(* The end of the index on the append path.                                *)
(***************************************************************************)

\* C32: Log.Append never returns the index's end-of-file error to its
\* caller, whatever MaxIndexBytes >= entWidth the Log is configured with
C32_AppendNoEOF ==
    (last.op = "Append" /\ logs[Local].Config.MaxIndexBytes >= entWidth)
        => last.err # EOF

----------------------------------------------------------------------------
(***************************************************************************)
(* The log store of the consensus layer: StoreLogs, GetLog, FirstIndex,    *)
(* LastIndex and DeleteRange on a Log with InitialOffset = 1.              *)
(***************************************************************************)

\* the highest index the consensus layer stores an entry with
MaxIndex == 2

\* the DeleteRange calls the consensus layer makes
MaxDeletes == 1

\* the entries stored: a command, and a no-op (raft.LogNoop = 1) of a later
\* term
EntryKinds == { RaftLog(0, 1, 0, <<7>>), RaftLog(0, 2, 1, <<>>) }

\* the raft.Log values GetLog is handed to fill: a new one
OutLogs == { ZeroRaftLog }

LogStoreCall(op, index, min, max, out, err) ==
    [op |-> op, index |-> index, min |-> min, max |-> max,
     hi |-> LastIndex(rlog.log).off, out |-> out, err |-> err]

\* setupRaft: newLogStore(logDir, logConfig) with InitialOffset = 1
DoNewLogStore(c) ==
    /\ rlog.pc = "none"
    /\ rlog' = [rlog EXCEPT !.pc = "open",
                            !.log = NewLog({}, [c EXCEPT !.InitialOffset = 1]),
                            !.last = LogStoreCall("newLogStore", 0, 0, 0, ZeroRaftLog, NoErr)]
    /\ UNCHANGED <<logs, last, appended, threads, raftVars>>
    /\ UNCHANGED <<streams, raftConf, calls, cc, gossip, conns, wait>>
    /\ UNCHANGED <<st, ix, rs, dl, repl, builds>>

\* StoreLogs(entries), the entries carrying the indexes after the last one
\* stored; the model stops storing once MaxOrphans appends have failed on
\* the active segment, and once the Log's next offset would pass MaxIndex + 1
DoStoreLogs(kinds) ==
    /\ rlog.pc = "open"
    /\ Len(rlog.stored) + Len(kinds) <= MaxIndex
    /\ rlog.log.segments # <<>> =>
          /\ Orphans(ActiveSegment(rlog.log)) < MaxOrphans
          /\ ActiveSegment(rlog.log).nextOffset + Len(kinds) <= MaxIndex + 2
    /\ \E entries \in {[k \in 1..Len(kinds) |->
                          [kinds[k] EXCEPT !.Index = Len(rlog.stored) + k]]} :
       \E s \in {StoreLogs(rlog.log, entries, 1)} :
          rlog' = [rlog EXCEPT
                     !.log = s.log,
                     !.stored = IF s.done = 0 THEN @ ELSE @ \o SubSeq(entries, 1, s.done),
                     !.last = LogStoreCall("StoreLogs", Len(rlog.stored) + 1, 0, 0,
                                           ZeroRaftLog, s.err)]
    /\ UNCHANGED <<logs, last, appended, threads, raftVars>>
    /\ UNCHANGED <<streams, raftConf, calls, cc, gossip, conns, wait>>
    /\ UNCHANGED <<st, ix, rs, dl, repl, builds>>

\* GetLog(index, out)
DoGetLog(index, out) ==
    /\ rlog.pc = "open"
    /\ \E g \in {GetLog(rlog.log, index, out)} :
          rlog' = [rlog EXCEPT
                     !.log = g.log,
                     !.last = LogStoreCall("GetLog", index, 0, 0, g.out, g.err)]
    /\ UNCHANGED <<logs, last, appended, threads, raftVars>>
    /\ UNCHANGED <<streams, raftConf, calls, cc, gossip, conns, wait>>
    /\ UNCHANGED <<st, ix, rs, dl, repl, builds>>

\* DeleteRange(min, max) from an index that is stored; when max is the last
\* index or beyond it the consensus layer takes the entries from min on as
\* gone
DoDeleteRange(min, max) ==
    /\ rlog.pc = "open"
    /\ rlog.deleted < MaxDeletes
    /\ 1 <= min /\ min <= max /\ min <= Len(rlog.stored)
    /\ \E d \in {DeleteRange(rlog.log, min, max)} :
          rlog' = [rlog EXCEPT
                     !.log = d.log,
                     !.stored = IF max >= Len(rlog.stored) /\ min > 1
                                THEN SubSeq(@, 1, min - 1)
                                ELSE IF max >= Len(rlog.stored) THEN <<>> ELSE @,
                     !.deleted = @ + 1,
                     !.last = LogStoreCall("DeleteRange", 0, min, max, ZeroRaftLog, d.err)]
    /\ UNCHANGED <<logs, last, appended, threads, raftVars>>
    /\ UNCHANGED <<streams, raftConf, calls, cc, gossip, conns, wait>>
    /\ UNCHANGED <<st, ix, rs, dl, repl, builds>>

NextLogStore ==
    \/ \E c \in Configs : DoNewLogStore(c)
    \/ \E kinds \in {<<a>> : a \in EntryKinds}
                       \cup {<<a, b>> : a \in EntryKinds, b \in EntryKinds} :
          DoStoreLogs(kinds)
    \/ \E index \in 0..(MaxIndex + 1), out \in OutLogs : DoGetLog(index, out)
    \/ \E min \in 1..MaxIndex, max \in 1..(MaxIndex + 1) : DoDeleteRange(min, max)

SpecLogStore == InitCluster /\ [][NextLogStore]_vars

\* C33: while no entry has been deleted, GetLog(i) of a stored index i
\* returns the entry stored with index i (Index, Term, Type and Data), and
\* FirstIndex and LastIndex are the lowest and the highest stored index
C33_GetLog ==
    (rlog.pc = "open" /\ rlog.deleted = 0 /\ rlog.stored # <<>>) =>
        /\ FirstIndex(rlog.log) = [off |-> 1, err |-> NoErr]
        /\ LastIndex(rlog.log) = [off |-> Len(rlog.stored), err |-> NoErr]
        /\ (rlog.last.op = "GetLog" /\ rlog.last.index \in 1..Len(rlog.stored)) =>
              /\ rlog.last.err = NoErr
              /\ rlog.last.out = rlog.stored[rlog.last.index]


\* what GetLog(index) reads into a new raft.Log: [out, err]
Entry(l, index) ==
    Let(GetLog(l, index, ZeroRaftLog), LAMBDA g : [out |-> g.out, err |-> g.err])

\* C34: DeleteRange(min, max) does what Log.Truncate(min) does, whatever max
\* is: the segments whose nextOffset is at most min are gone, the others
\* stay, and every entry of a segment that stays reads as it did before
C34_DeleteRange ==
    [][(rlog'.last.op = "DeleteRange" /\ rlog' # rlog) =>
          \E l \in {rlog.log} :
          \E after \in {rlog'.log} :
          \E min \in {rlog'.last.min} :
              /\ rlog'.last.err = NoErr
              /\ after = LogTruncate(l, min).log
              /\ after.segments = SelectSeq(l.segments, LAMBDA s : s.nextOffset > min)
              /\ \A k \in 1..Len(l.segments) :
                    l.segments[k].nextOffset > min =>
                        \A i \in l.segments[k].baseOffset..(l.segments[k].nextOffset - 1) :
                            /\ Entry(l, i).err = NoErr
                            /\ Entry(after, i) = Entry(l, i)]_vars

\* DeleteRange(2, 3) on two entries held by one segment each has removed
\* the first segment and left the entry with index 2
C34_Witness ==
    /\ rlog.last.op = "DeleteRange"
    /\ rlog.last.min = 2
    /\ rlog.last.max = 3
    /\ rlog.last.hi = 2
    /\ rlog.log.segments # <<>>
    /\ rlog.log.segments[1].baseOffset = 2
    /\ Entry(rlog.log, 1).err # NoErr
    /\ Entry(rlog.log, 2).err = NoErr

\* C35: after DeleteRange(min, max) has returned nil no index from min to
\* max is readable through GetLog; when max was the last index, LastIndex is
\* min - 1, and the entry stored next, with index min, is what GetLog(min)
\* returns
C35_RangeDeleted ==
    /\ (rlog.last.op = "DeleteRange" /\ rlog.last.err = NoErr) =>
          /\ \A i \in rlog.last.min..rlog.last.max : Entry(rlog.log, i).err # NoErr
          /\ rlog.last.max = rlog.last.hi =>
                LastIndex(rlog.log).off = rlog.last.min - 1
    /\ (rlog.deleted > 0 /\ rlog.last.op = "StoreLogs" /\ rlog.last.err = NoErr) =>
          \A i \in rlog.last.index..Len(rlog.stored) :
              Entry(rlog.log, i) = [out |-> [rlog.stored[i] EXCEPT !.Type = 0],
                                    err |-> NoErr]

----------------------------------------------------------------------------
(***************************************************************************)
(* The store and the index of a segment, side by side.                     *)
(***************************************************************************)

\* the position at which the frame that is j frames after pos starts
RECURSIVE FrameStart(_, _, _)
FrameStart(bs, pos, j) ==
    IF j = 0 THEN pos
    ELSE FrameStart(bs, pos + lenWidth + Uint(SubSeq(bs, pos + 1, pos + lenWidth)), j - 1)

\* the store holds one frame per index entry, the entries are numbered from
\* 0 and point at the frames in order, and nextOffset counts them
Aligned(s) ==
    \E bs \in {s.store.file \o s.store.buf} :
    \E n \in {s.index.size \div entWidth} :
        /\ FrameCount(bs, 0) = n
        /\ s.nextOffset - s.baseOffset = n
        /\ \A j \in 0..(n - 1) :
              IndexRead(s.index, j) =
                  [out |-> j, pos |-> FrameStart(bs, 0, j), err |-> NoErr]

\* C36: in every segment the frames of the store, the entries of the index
\* and nextOffset - baseOffset count the same records, entry j pointing at
\* frame j; also after an Append that failed on the end of the index
C36_SegmentAligned ==
    \A k \in 1..Len(logs[Local].segments) : Aligned(logs[Local].segments[k])

----------------------------------------------------------------------------
(***************************************************************************)
(* fsm.Restore on a Log that holds records already: the snapshot of Local  *)
(* is restored on Target.                                                  *)
(***************************************************************************)

\* fsm.Snapshot and Persist on node a, fsm.Restore of the bytes on node b;
\* the appends node b counts are those made since Restore reset its Log
DoRestore(a, b) ==
    /\ logs[a].segments # <<>>
    /\ \E r \in {fsmRestore(logs[b], fsmSnapshot(logs[a]))} :
          /\ logs' = [logs EXCEPT ![b] = r.log]
          /\ appended' = [appended EXCEPT ![b] =
                            IF r.log = logs[b] \/ r.log.segments = <<>> THEN @
                            ELSE ActiveSegment(r.log).nextOffset
                                     - r.log.segments[1].baseOffset]
          /\ last' = Call("Restore", b, 0, 0, <<>>, r.err, NoErr, OKStatus)
    /\ UNCHANGED <<threads, raftVars>>
    /\ UNCHANGED svcVars

NextRestore ==
    \/ \E n \in {Local, Target}, record \in InputRecords : DoAppend(n, record)
    \/ \E off \in Offsets : ReadOn(Local, off)
    \/ DoRestore(Local, Target)

SpecRestore == InitCluster /\ [][NextRestore]_vars

\* the records a snapshot holds, frame by frame
RECURSIVE SnapshotRecords(_, _)
SnapshotRecords(r, pos) ==
    IF Len(r) - pos < lenWidth THEN <<>>
    ELSE Let(Uint(SubSeq(r, pos + 1, pos + lenWidth)), LAMBDA size :
             <<Unmarshal(SubSeq(r, pos + lenWidth + 1, pos + lenWidth + size)).rec>>
                 \o SnapshotRecords(r, pos + lenWidth + size))

\* the log holds the records recs at their offsets and nothing else
HoldsExactly(l, recs) ==
    /\ l.segments # <<>>
    /\ \A k \in 1..Len(recs) : LogRead(l, recs[k].Offset).rec = <<recs[k]>>
    /\ \A off \in Offsets :
          LogRead(l, off).err = NoErr => \E k \in 1..Len(recs) : recs[k].Offset = off

\* C37: after fsm.Restore(s) has returned nil the log holds the records of s
\* at their offsets and nothing else, whatever it held before and whatever s
\* holds
C37_RestoreReplaces ==
    [][(DoRestore(Local, Target) /\ last'.err = NoErr) =>
          HoldsExactly(logs'[Target], SnapshotRecords(fsmSnapshot(logs[Local]), 0))]_vars

----------------------------------------------------------------------------
(***************************************************************************)
(* The Replicator: Join, Leave and Close under r.mu, and the goroutines    *)
(* replicate starts.                                                       *)
(***************************************************************************)

\* the replicate goroutines started over the life of one Replicator
MaxTasks == 2

\* Replicator.init
ReplicatorInit(r) == [r EXCEPT !.close = IF @ = "nil" THEN "open" ELSE @]

\* close(ch) on one of the Replicator's channels: closing a closed channel
\* panics
CloseChan(state, panic) == panic \/ state = "closed"

\* Replicator.Join(name, addrs), from Lock to the deferred Unlock
ReplicatorJoin(name) ==
    /\ \E r \in {ReplicatorInit(repl)} :
       \E start \in {~r.closed /\ r.servers[name] = 0} :
          /\ start => Len(r.tasks) < MaxTasks
          /\ repl' = [r EXCEPT
                        !.servers[name] = IF start THEN Len(r.tasks) + 1 ELSE @,
                        !.tasks = IF start
                                  THEN Append(@, [name |-> name, leave |-> "open",
                                                  pc |-> "dial", recv |-> "none",
                                                  cc |-> "none"])
                                  ELSE @,
                        !.last = [op |-> "Join", name |-> name, started |-> start]]
    /\ UNCHANGED <<logs, last, appended, threads, raftVars>>
    /\ UNCHANGED <<streams, raftConf, calls, cc, gossip, conns, wait>>
    /\ UNCHANGED <<st, ix, rs, dl, rlog, builds>>

\* Replicator.Leave(name)
ReplicatorLeave(name) ==
    /\ \E r \in {ReplicatorInit(repl)} :
       \E k \in {r.servers[name]} :
          repl' = IF k = 0
                  THEN [r EXCEPT !.last = [op |-> "Leave", name |-> name,
                                           started |-> FALSE]]
                  ELSE [r EXCEPT
                          !.panic = CloseChan(r.tasks[k].leave, @),
                          !.tasks[k].leave = "closed",
                          !.servers[name] = 0,
                          !.last = [op |-> "Leave", name |-> name, started |-> FALSE]]
    /\ UNCHANGED <<logs, last, appended, threads, raftVars>>
    /\ UNCHANGED <<streams, raftConf, calls, cc, gossip, conns, wait>>
    /\ UNCHANGED <<st, ix, rs, dl, rlog, builds>>

\* Replicator.Close
ReplicatorClose ==
    /\ \E r \in {ReplicatorInit(repl)} :
          repl' = IF r.closed
                  THEN [r EXCEPT !.last = [op |-> "Close", name |-> "",
                                           started |-> FALSE]]
                  ELSE [r EXCEPT
                          !.closed = TRUE,
                          !.panic = CloseChan(r.close, @),
                          !.close = "closed",
                          !.last = [op |-> "Close", name |-> "", started |-> FALSE]]
    /\ UNCHANGED <<logs, last, appended, threads, raftVars>>
    /\ UNCHANGED <<streams, raftConf, calls, cc, gossip, conns, wait>>
    /\ UNCHANGED <<st, ix, rs, dl, rlog, builds>>

\* replicate: grpc.Dial; an error ends the goroutine
ReplicateDial(k, ok) ==
    /\ k \in 1..Len(repl.tasks)
    /\ repl.tasks[k].pc = "dial"
    /\ repl' = [repl EXCEPT !.tasks[k].pc = IF ok THEN "stream" ELSE "done",
                            !.tasks[k].cc = IF ok THEN "open" ELSE "none"]
    /\ UNCHANGED <<logs, last, appended, threads, raftVars>>
    /\ UNCHANGED <<streams, raftConf, calls, cc, gossip, conns, wait>>
    /\ UNCHANGED <<st, ix, rs, dl, rlog, builds>>

\* replicate: client.ConsumeStream; an error ends the goroutine (the deferred
\* cc.Close runs), otherwise the records channel is made and the receiving
\* goroutine is started
ReplicateStream(k, ok) ==
    /\ k \in 1..Len(repl.tasks)
    /\ repl.tasks[k].pc = "stream"
    /\ repl' = [repl EXCEPT !.tasks[k].pc = IF ok THEN "select" ELSE "done",
                            !.tasks[k].recv = IF ok THEN "recv" ELSE "none",
                            !.tasks[k].cc = IF ok THEN "open" ELSE "closed"]
    /\ UNCHANGED <<logs, last, appended, threads, raftVars>>
    /\ UNCHANGED <<streams, raftConf, calls, cc, gossip, conns, wait>>
    /\ UNCHANGED <<st, ix, rs, dl, rlog, builds>>

\* replicate: the select takes one of the cases that are ready: r.close is
\* closed, leave is closed (both return, the deferred cc.Close runs), or the
\* receiving goroutine is sending a record
ReplicateSelect(k, case) ==
    /\ k \in 1..Len(repl.tasks)
    /\ repl.tasks[k].pc = "select"
    /\ \/ /\ case = "close"
          /\ repl.close = "closed"
          /\ repl' = [repl EXCEPT !.tasks[k].pc = "done", !.tasks[k].cc = "closed"]
       \/ /\ case = "leave"
          /\ repl.tasks[k].leave = "closed"
          /\ repl' = [repl EXCEPT !.tasks[k].pc = "done", !.tasks[k].cc = "closed"]
       \/ /\ case = "records"
          /\ repl.tasks[k].recv = "send"
          /\ repl' = [repl EXCEPT !.tasks[k].pc = "produce", !.tasks[k].recv = "recv"]
    /\ UNCHANGED <<logs, last, appended, threads, raftVars>>
    /\ UNCHANGED <<streams, raftConf, calls, cc, gossip, conns, wait>>
    /\ UNCHANGED <<st, ix, rs, dl, rlog, builds>>

\* replicate: r.LocalServer.Produce; an error ends the goroutine
ReplicateProduce(k, ok) ==
    /\ k \in 1..Len(repl.tasks)
    /\ repl.tasks[k].pc = "produce"
    /\ repl' = [repl EXCEPT !.tasks[k].pc = IF ok THEN "select" ELSE "done",
                            !.tasks[k].cc = IF ok THEN "open" ELSE "closed"]
    /\ UNCHANGED <<logs, last, appended, threads, raftVars>>
    /\ UNCHANGED <<streams, raftConf, calls, cc, gossip, conns, wait>>
    /\ UNCHANGED <<st, ix, rs, dl, rlog, builds>>

\* the receiving goroutine: stream.Recv returns a record, which it goes on
\* to send on the records channel
RecvRecord(k) ==
    /\ k \in 1..Len(repl.tasks)
    /\ repl.tasks[k].recv = "recv"
    /\ repl.tasks[k].cc = "open"
    /\ repl' = [repl EXCEPT !.tasks[k].recv = "send"]
    /\ UNCHANGED <<logs, last, appended, threads, raftVars>>
    /\ UNCHANGED <<streams, raftConf, calls, cc, gossip, conns, wait>>
    /\ UNCHANGED <<st, ix, rs, dl, rlog, builds>>

\* the receiving goroutine: stream.Recv fails while the connection is open,
\* and the goroutine returns
RecvFail(k) ==
    /\ k \in 1..Len(repl.tasks)
    /\ repl.tasks[k].recv = "recv"
    /\ repl.tasks[k].cc = "open"
    /\ repl' = [repl EXCEPT !.tasks[k].recv = "done"]
    /\ UNCHANGED <<logs, last, appended, threads, raftVars>>
    /\ UNCHANGED <<streams, raftConf, calls, cc, gossip, conns, wait>>
    /\ UNCHANGED <<st, ix, rs, dl, rlog, builds>>

\* the receiving goroutine: stream.Recv fails because the connection has
\* been closed, and the goroutine returns
RecvClosed(k) ==
    /\ k \in 1..Len(repl.tasks)
    /\ repl.tasks[k].recv = "recv"
    /\ repl.tasks[k].cc = "closed"
    /\ repl' = [repl EXCEPT !.tasks[k].recv = "done"]
    /\ UNCHANGED <<logs, last, appended, threads, raftVars>>
    /\ UNCHANGED <<streams, raftConf, calls, cc, gossip, conns, wait>>
    /\ UNCHANGED <<st, ix, rs, dl, rlog, builds>>

\* a step of the replicate goroutine of task k
ReplicateStep(k) ==
    \/ \E ok \in BOOLEAN : ReplicateDial(k, ok)
    \/ \E ok \in BOOLEAN : ReplicateStream(k, ok)
    \/ \E case \in {"close", "leave", "records"} : ReplicateSelect(k, case)
    \/ \E ok \in BOOLEAN : ReplicateProduce(k, ok)

NextReplicator ==
    \/ \E name \in Peers : ReplicatorJoin(name)
    \/ \E name \in Peers : ReplicatorLeave(name)
    \/ ReplicatorClose
    \/ \E k \in 1..MaxTasks : ReplicateStep(k)
    \/ \E k \in 1..MaxTasks : RecvRecord(k)
    \/ \E k \in 1..MaxTasks : RecvFail(k)
    \/ \E k \in 1..MaxTasks : RecvClosed(k)

\* replicate returns on a closed channel
ReplicateReturn(k) == \E case \in {"close", "leave"} : ReplicateSelect(k, case)

\* every goroutine that can take a step takes one in the end, and a select
\* that finds a closed channel ready again and again takes that case in the
\* end (the choice among the ready cases is random)
SpecReplicator ==
    /\ InitCluster
    /\ [][NextReplicator]_vars
    /\ \A k \in 1..MaxTasks :
          /\ WF_vars(ReplicateStep(k))
          /\ SF_vars(ReplicateReturn(k))
          /\ WF_vars(RecvClosed(k))

\* the tasks of a peer whose replicate goroutine has not returned
Running(name) ==
    {k \in 1..Len(repl.tasks) : repl.tasks[k].name = name /\ repl.tasks[k].pc # "done"}

\* C38: every name in the servers map has exactly one running replication
\* task, and no channel is closed twice
C38_OneTask ==
    /\ \A name \in Peers :
          repl.servers[name] # 0 => Cardinality(Running(name)) = 1
    /\ ~repl.panic

\* the goroutines of task k have returned
Terminated(k) ==
    /\ repl.tasks[k].pc = "done"
    /\ repl.tasks[k].recv \in {"none", "done"}

\* C39: once the Replicator is closed, or a peer has been left, every
\* goroutine started for the peer returns in the end
C39_GoroutinesEnd ==
    \A k \in 1..MaxTasks :
        (k \in 1..Len(repl.tasks) /\ (repl.close = "closed" \/ repl.tasks[k].leave = "closed"))
            ~> (k \in 1..Len(repl.tasks) /\ Terminated(k))


(***************************************************************************)
(* The resolvers Build returns: gRPC calls Build on the registered         *)
(* Resolver once for each client connection, and ResolveNow and Close on   *)
(* what Build returned.                                                    *)
(***************************************************************************)

MaxBuilds == 3

\* Resolver.Build for client connection calls+1: the fields of the receiver
\* are set, a failed grpc.Dial returns the error, otherwise ResolveNow is
\* called and the receiver itself is returned
Build(dialOk, getOk) ==
    /\ ~builds.panic
    /\ builds.calls < MaxBuilds
    /\ \E c \in {builds.calls + 1} :
         builds' = [builds EXCEPT
             !.calls = c,
             !.clientConn = c,
             !.serverConfig = c,
             !.resolverConn = IF dialOk THEN c ELSE 0,
             !.open = IF dialOk THEN @ \cup {c} ELSE @,
             !.built = IF dialOk THEN Append(@, [cc |-> c, conn |-> c]) ELSE @,
             !.updated = IF dialOk /\ getOk THEN @ \cup {c} ELSE @,
             !.last = [op |-> "Build",
                       on |-> IF dialOk THEN Len(builds.built) + 1 ELSE 0,
                       updated |-> IF dialOk /\ getOk THEN c ELSE 0,
                       closed |-> 0]]
    /\ UNCHANGED <<logs, last, appended, threads, raftVars>>
    /\ UNCHANGED <<streams, raftConf, calls, cc, gossip, conns, wait>>
    /\ UNCHANGED <<st, ix, rs, dl, rlog, repl>>

\* ResolveNow on the i-th resolver Build returned: GetServers goes over
\* r.resolverConn (a nil one panics, a closed one fails) and the state goes
\* to r.clientConn
ResolveNow(i, ok) ==
    /\ ~builds.panic
    /\ i \in 1..Len(builds.built)
    /\ \E got \in {ok /\ builds.resolverConn \in builds.open} :
         builds' = [builds EXCEPT
             !.panic = builds.resolverConn = 0,
             !.updated = IF got THEN @ \cup {builds.clientConn} ELSE @,
             !.last = [op |-> "ResolveNow", on |-> i,
                       updated |-> IF got THEN builds.clientConn ELSE 0,
                       closed |-> 0]]
    /\ UNCHANGED <<logs, last, appended, threads, raftVars>>
    /\ UNCHANGED <<streams, raftConf, calls, cc, gossip, conns, wait>>
    /\ UNCHANGED <<st, ix, rs, dl, rlog, repl>>

\* Close on the i-th resolver Build returned: r.resolverConn.Close()
ResolverClose(i) ==
    /\ ~builds.panic
    /\ i \in 1..Len(builds.built)
    /\ builds' = [builds EXCEPT
           !.panic = builds.resolverConn = 0,
           !.open = @ \ {builds.resolverConn},
           !.last = [op |-> "Close", on |-> i, updated |-> 0,
                     closed |-> builds.resolverConn]]
    /\ UNCHANGED <<logs, last, appended, threads, raftVars>>
    /\ UNCHANGED <<streams, raftConf, calls, cc, gossip, conns, wait>>
    /\ UNCHANGED <<st, ix, rs, dl, rlog, repl>>

NextBuilds ==
    \/ \E dialOk \in BOOLEAN, getOk \in BOOLEAN : Build(dialOk, getOk)
    \/ \E i \in 1..MaxBuilds, ok \in BOOLEAN : ResolveNow(i, ok)
    \/ \E i \in 1..MaxBuilds : ResolverClose(i)

SpecBuilds == InitCluster /\ [][NextBuilds]_vars

\* C40: every resolver a Build returned has its own client connection and
\* its own bootstrap connection: whatever Builds were made since, ResolveNow
\* on it uses a bootstrap connection and updates the client connection it
\* was built for, and Close on it closes the bootstrap connection it dialed
C40_OwnConnections ==
    /\ (builds.last.op = "ResolveNow" /\ builds.last.updated # 0)
          => builds.last.updated = builds.built[builds.last.on].cc
    /\ builds.last.op = "Close"
          => builds.last.closed = builds.built[builds.last.on].conn

=============================================================================
